---- MODULE Spec2Model ----
(***************************************************************************)
(* Groebner-Basis: checked integers, exact rationals, monomials, monomial  *)
(* orders, sparse polynomials and the Buchberger completion kernel.        *)
(*                                                                         *)
(* Representation.                                                         *)
(*   OverflowDetector<I>  an integer; the range [kMinValue, kMaxValue] is  *)
(*                        that of a signed IntBits-bit integer.            *)
(*   Rational             a record [num, den].                             *)
(*   Monomial             its degrees_ vector, a sequence of naturals.     *)
(*                        The code indexes variables from 0, sequences     *)
(*                        here are indexed from 1.                         *)
(*   Polynomial           its terms_ map: a function from the set of its   *)
(*                        keys (monomials) to coefficients.                *)
(*   PolynomialSet        a set of polynomials, iterated in the order of   *)
(*                        its comparator Less.                             *)
(***************************************************************************)
EXTENDS Integers, Sequences, FiniteSets, TLC

\* -------------------------------------------------------------------------
\* Bounds of the model
\* -------------------------------------------------------------------------

\* width of the integer type of the Rational state machine
IntBits == 6

\* largest number of polynomials in an input set
MaxSetSize == 2

\* the operands of the Rational operations are p/q, |p| <= MaxOperand,
\* 1 <= q <= MaxOperand
MaxOperand == 3

\* the Monomial object has at most MaxVariables variables
MaxVariables == 2

\* and exponents up to MaxExponent
MaxExponent == 2

\* the initializer lists handed to the Polynomial constructor have at most
\* MaxListLength terms
MaxListLength == 2

\* the Polynomial object undergoes at most MaxOperations operations
MaxOperations == 2

\* a reduction run one step at a time performs at most MaxReductions
\* elementary reductions
MaxReductions == 6

\* BuildCycleSet is called with m up to MaxCycleSize
MaxCycleSize == 6

\* -------------------------------------------------------------------------
\* overflow_detector.h
\* -------------------------------------------------------------------------

Abs(a) == IF a < 0 THEN 0 - a ELSE a

RECURSIVE Pow2(_)
Pow2(n) == IF n = 0 THEN 1 ELSE 2 * Pow2(n - 1)

kMaxValue == Pow2(IntBits - 1) - 1

kMinValue == 0 - Pow2(IntBits - 1)

\* the built-in integer division of C++: the quotient is truncated toward 0
CDiv(a, b) ==
    IF (a < 0) = (b < 0) THEN Abs(a) \div Abs(b) ELSE 0 - (Abs(a) \div Abs(b))

RECURSIVE Euclid(_, _)
Euclid(a, b) == IF b = 0 THEN a ELSE Euclid(b, a % b)

\* std::gcd of the two values: the greatest common divisor of |lhs|, |rhs|
gcd(lhs, rhs) == Euclid(Abs(lhs), Abs(rhs))

lcm(lhs, rhs) == CDiv(lhs, gcd(lhs, rhs)) * rhs

DoesUnaryMinusOverflow(value) ==
    LET offset == kMaxValue + kMinValue
    IN  IF offset < 0 /\ value = kMinValue THEN TRUE
        ELSE IF offset > 0 /\ value = kMaxValue THEN TRUE
        ELSE FALSE

\* DoesAdditionOverflow with >= and <= in place of > and <
DoesAdditionOverflowInclusive(lhs, rhs) ==
    IF rhs > 0 /\ lhs >= kMaxValue - rhs THEN TRUE
    ELSE IF rhs < 0 /\ lhs <= kMinValue - rhs THEN TRUE
    ELSE FALSE

DoesAdditionOverflow(lhs, rhs) ==
    IF rhs > 0 /\ lhs > kMaxValue - rhs THEN TRUE
    ELSE IF rhs < 0 /\ lhs < kMinValue - rhs THEN TRUE
    ELSE FALSE

DoesSubtractionOverflow(lhs, rhs) ==
    IF rhs < 0 /\ lhs > kMaxValue + rhs THEN TRUE
    ELSE IF rhs > 0 /\ lhs < kMinValue + rhs THEN TRUE
    ELSE FALSE

DoesMultiplicationOverflow(lhs, rhs) ==
    LET offset == kMaxValue + kMinValue
    IN  IF lhs = 0 \/ rhs = 0 THEN FALSE
        ELSE IF offset > 0 /\ rhs = -1 THEN lhs = kMaxValue
        ELSE IF offset > 0 /\ lhs = -1 THEN rhs = kMaxValue
        ELSE IF offset < 0 /\ rhs = -1 THEN lhs = kMinValue
        ELSE IF offset < 0 /\ lhs = -1 THEN rhs = kMinValue
        ELSE IF lhs < 0
             THEN IF rhs < 0 THEN lhs < CDiv(kMaxValue, rhs)
                             ELSE lhs < CDiv(kMinValue, rhs)
             ELSE IF rhs < 0 THEN lhs > CDiv(kMinValue, rhs)
                             ELSE lhs > CDiv(kMaxValue, rhs)

DoesDivisionOverflow(lhs, rhs) ==
    LET offset == kMaxValue + kMinValue
    IN  IF rhs = 0 THEN TRUE
        ELSE IF offset > 0
             THEN (lhs = -1 /\ rhs = kMaxValue) \/ (lhs = kMaxValue /\ rhs = -1)
        ELSE IF offset < 0
             THEN (lhs = -1 /\ rhs = kMinValue) \/ (lhs = kMinValue /\ rhs = -1)
        ELSE FALSE

\* -------------------------------------------------------------------------
\* rational.h
\* -------------------------------------------------------------------------

Rat(n, d) == [num |-> n, den |-> d]

\* Reduce_ that makes the denominator positive and leaves the common
\* divisor in
ReduceSignOnly_(n, d) ==
    LET n1 == IF d < 0 THEN n * (-1) ELSE n
        d1 == IF d < 0 THEN d * (-1) ELSE d
    IN  Rat(n1, d1)

\* Reduce_: make the denominator positive, divide both fields by their gcd
Reduce_(n, d) ==
    LET n1 == IF d < 0 THEN n * (-1) ELSE n
        d1 == IF d < 0 THEN d * (-1) ELSE d
        g  == gcd(n1, d1)
    IN  Rat(CDiv(n1, g), CDiv(d1, g))

\* Rational(IntegerType numerator)
RationalInt(n) == Rat(n, 1)

\* Rational(IntegerType numerator, IntegerType denominator), denominator # 0
Rational(n, d) == Reduce_(n, d)

\* Invert, numerator # 0
Invert(a) == Reduce_(a.den, a.num)

\* unary operator-
RatNeg(a) == Rat(a.num * (-1), a.den)

\* operator+= without the scaling of numerator_ by lcm / denominator_
RatAddUnscaled(a, b) ==
    LET l  == lcm(a.den, b.den)
        n2 == a.num + CDiv(l, b.den) * b.num
    IN  Reduce_(n2, l)

\* operator+= and, on a copy of lhs, operator+
RatAdd(a, b) ==
    LET l  == lcm(a.den, b.den)
        n1 == a.num * CDiv(l, a.den)
        n2 == n1 + CDiv(l, b.den) * b.num
    IN  Reduce_(n2, l)

\* operator-= and, on a copy of lhs, operator-
RatSub(a, b) ==
    LET l  == lcm(a.den, b.den)
        n1 == a.num * CDiv(l, a.den)
        n2 == n1 - CDiv(l, b.den) * b.num
    IN  Reduce_(n2, l)

\* operator*= and, on a copy of lhs, operator*
RatMul(a, b) == Reduce_(a.num * b.num, a.den * b.den)

\* operator/= and, on a copy of lhs, operator/ ; other.numerator_ # 0
RatDiv(a, b) == Reduce_(a.num * b.den, a.den * b.num)

\* operator<
RatLess(a, b) ==
    LET l == lcm(a.den, b.den)
    IN  a.num * CDiv(l, a.den) < b.num * CDiv(l, b.den)

\* operator== : structural on (numerator_, denominator_)
RatEq(a, b) == a.num = b.num /\ a.den = b.den

\* CheckInvariants_
CheckInvariants_(a) == a.den > 0 /\ gcd(a.num, a.den) = 1

\* The operators above compute in the integers. The code computes in
\* OverflowDetector<IntegerType>, whose operators assert that the operation
\* does not overflow; the predicates below say, for each operation of
\* Rational, that one of the OverflowDetector operations it performs does.

\* std::gcd needs |lhs| and |rhs| to be values of the type
GcdOverflows(lhs, rhs) ==
    \/ DoesUnaryMinusOverflow(lhs)
    \/ DoesUnaryMinusOverflow(rhs)

\* lhs / gcd(lhs, rhs) * rhs
LcmOverflows(lhs, rhs) ==
    \/ GcdOverflows(lhs, rhs)
    \/ DoesDivisionOverflow(lhs, gcd(lhs, rhs))
    \/ DoesMultiplicationOverflow(CDiv(lhs, gcd(lhs, rhs)), rhs)

ReduceOverflows_(n, d) ==
    LET n1 == IF d < 0 THEN n * (-1) ELSE n
        d1 == IF d < 0 THEN d * (-1) ELSE d
    IN  \/ d < 0 /\ DoesMultiplicationOverflow(d, -1)
        \/ d < 0 /\ DoesMultiplicationOverflow(n, -1)
        \/ GcdOverflows(n1, d1)
        \/ DoesDivisionOverflow(n1, gcd(n1, d1))
        \/ DoesDivisionOverflow(d1, gcd(n1, d1))

RatNegOverflows(a) == DoesMultiplicationOverflow(a.num, -1)

RatAddOverflows(a, b) ==
    LET l  == lcm(a.den, b.den)
        n1 == a.num * CDiv(l, a.den)
        t  == CDiv(l, b.den) * b.num
    IN  \/ LcmOverflows(a.den, b.den)
        \/ DoesDivisionOverflow(l, a.den)
        \/ DoesMultiplicationOverflow(a.num, CDiv(l, a.den))
        \/ DoesDivisionOverflow(l, b.den)
        \/ DoesMultiplicationOverflow(CDiv(l, b.den), b.num)
        \/ DoesAdditionOverflow(n1, t)
        \/ ReduceOverflows_(n1 + t, l)

RatSubOverflows(a, b) ==
    LET l  == lcm(a.den, b.den)
        n1 == a.num * CDiv(l, a.den)
        t  == CDiv(l, b.den) * b.num
    IN  \/ LcmOverflows(a.den, b.den)
        \/ DoesDivisionOverflow(l, a.den)
        \/ DoesMultiplicationOverflow(a.num, CDiv(l, a.den))
        \/ DoesDivisionOverflow(l, b.den)
        \/ DoesMultiplicationOverflow(CDiv(l, b.den), b.num)
        \/ DoesSubtractionOverflow(n1, t)
        \/ ReduceOverflows_(n1 - t, l)

RatMulOverflows(a, b) ==
    \/ DoesMultiplicationOverflow(a.num, b.num)
    \/ DoesMultiplicationOverflow(a.den, b.den)
    \/ ReduceOverflows_(a.num * b.num, a.den * b.den)

RatDivOverflows(a, b) ==
    \/ DoesMultiplicationOverflow(a.num, b.den)
    \/ DoesMultiplicationOverflow(a.den, b.num)
    \/ ReduceOverflows_(a.num * b.den, a.den * b.num)

\* A call that can throw gives the value the object is left with and whether
\* std::overflow_error("Divide by zero exception") was thrown.
Thrown(value) == [thrown |-> TRUE, value |-> value]

Returned(value) == [thrown |-> FALSE, value |-> value]

\* r = Rational(numerator, denominator): the constructor throws when the
\* denominator is 0, and r is then not assigned
ConstructCall(r, numerator, denominator) ==
    IF denominator = 0 THEN Thrown(r) ELSE Returned(Rational(numerator, denominator))

\* Invert that swaps the fields before it tests the numerator
InvertCallSwapFirst(a) ==
    IF a.num = 0 THEN Thrown(Rat(a.den, a.num)) ELSE Returned(Invert(a))

\* a.Invert(): the test of numerator_ comes before std::swap
InvertCall(a) ==
    IF a.num = 0 THEN Thrown(a) ELSE Returned(Invert(a))

\* GetInverted: result = *this; result.Invert(); return result
GetInverted(a) == Invert(a)

\* a /= other: the test of other.numerator_ comes before the two products
\* operator/= with other the object itself, a nonzero a: numerator_ *=
\* other.denominator_, then denominator_ *= other.numerator_ reads the
\* numerator just written, then Reduce_
DivideBySelf(a) == Reduce_(a.num * a.den, a.den * (a.num * a.den))

\* an OverflowDetector assertion fails in operator/= with other the object
\* itself
DivideBySelfOverflows(a) ==
    \/ DoesMultiplicationOverflow(a.num, a.den)
    \/ DoesMultiplicationOverflow(a.den, a.num * a.den)
    \/ ReduceOverflows_(a.num * a.den, a.den * (a.num * a.den))

DivideAssignCall(a, other) ==
    IF other.num = 0 THEN Thrown(a) ELSE Returned(RatDiv(a, other))

Zero == RationalInt(0)

One == RationalInt(1)

\* -------------------------------------------------------------------------
\* monomial.h : the exponent vector degrees_ of a monomial
\* -------------------------------------------------------------------------

Max2(a, b) == IF a < b THEN b ELSE a

\* Shrink_ with an if in place of the while: one trailing zero is dropped
ShrinkOnce_(degrees) ==
    IF Len(degrees) > 0 /\ degrees[Len(degrees)] = 0
    THEN SubSeq(degrees, 1, Len(degrees) - 1)
    ELSE degrees

\* Shrink_: drop the trailing zero exponents
RECURSIVE Shrink_(_)
Shrink_(degrees) ==
    IF Len(degrees) > 0 /\ degrees[Len(degrees)] = 0
    THEN Shrink_(SubSeq(degrees, 1, Len(degrees) - 1))
    ELSE degrees

\* Monomial(DegreeVector) and Monomial(std::initializer_list<DegreeType>)
Monomial(degrees) == Shrink_(degrees)

GetAmountOfVariables(m) == Len(m)

GetDegree(m, variableIndex) ==
    IF variableIndex <= Len(m) THEN m[variableIndex] ELSE 0

\* operator*= : resize to the longer vector, add the exponents, Shrink_
MonomialMul(lhs, rhs) ==
    Shrink_([i \in 1..Max2(Len(lhs), Len(rhs)) |->
                GetDegree(lhs, i) + GetDegree(rhs, i)])

\* IsDivisibleBy with >= in place of > in the loop
IsDivisibleByStrict(m, other) ==
    IF GetAmountOfVariables(other) > GetAmountOfVariables(m) THEN FALSE
    ELSE \A i \in 1..GetAmountOfVariables(other) :
            ~(GetDegree(other, i) >= GetDegree(m, i))

IsDivisibleBy(m, other) ==
    IF GetAmountOfVariables(other) > GetAmountOfVariables(m) THEN FALSE
    ELSE \A i \in 1..GetAmountOfVariables(other) :
            ~(GetDegree(other, i) > GetDegree(m, i))

\* the std::runtime_error thrown by operator/=
NotDivisible == "Monomial cannot be divided by another"

\* the conditions of the two throw statements of operator/=
DivisionThrows(lhs, rhs) ==
    IF GetAmountOfVariables(rhs) > GetAmountOfVariables(lhs) THEN TRUE
    ELSE \E i \in 1..GetAmountOfVariables(rhs) : lhs[i] < GetDegree(rhs, i)

\* operator/= : throws when other is longer or has a larger exponent,
\* otherwise subtracts the exponents and calls Shrink_
MonomialDiv(lhs, rhs) ==
    IF DivisionThrows(lhs, rhs) THEN NotDivisible
    ELSE Shrink_([i \in 1..Len(lhs) |-> lhs[i] - GetDegree(rhs, i)])

\* degrees_ when operator/= throws: the throw of the first test leaves it
\* alone, the throw in the loop comes after the subtractions at the indices
\* before the failing one, and Shrink_ is not reached
DegreesAtThrow(lhs, rhs) ==
    IF GetAmountOfVariables(rhs) > GetAmountOfVariables(lhs) THEN lhs
    ELSE LET failing == { i \in 1..GetAmountOfVariables(rhs) : lhs[i] < GetDegree(rhs, i) }
             first == CHOOSE i \in failing : \A j \in failing : i <= j
         IN  [i \in 1..Len(lhs) |->
                 IF i < first THEN lhs[i] - GetDegree(rhs, i) ELSE lhs[i]]

\* lhs /= rhs as a call: thrown, or returned with the quotient
MonomialDivideAssignCall(lhs, rhs) ==
    IF DivisionThrows(lhs, rhs)
    THEN Thrown(DegreesAtThrow(lhs, rhs))
    ELSE Returned(MonomialDiv(lhs, rhs))

\* TotalDegree: the sum of all exponents
RECURSIVE TotalDegree(_)
TotalDegree(m) ==
    IF Len(m) = 0 THEN 0 ELSE m[1] + TotalDegree(Tail(m))

\* operator< of two exponent vectors (std::vector): lexicographic from the
\* first index, a proper prefix is smaller
VecLess(a, b) ==
    \/ \E i \in 1..Len(a) :
          /\ i <= Len(b)
          /\ a[i] < b[i]
          /\ \A j \in 1..(i - 1) : a[j] = b[j]
    \/ /\ Len(a) < Len(b)
       /\ \A j \in 1..Len(a) : a[j] = b[j]

\* operator< of Monomial, used when two terms_ maps are compared
MonomialLess(a, b) == VecLess(a, b)

\* -------------------------------------------------------------------------
\* order.h
\* -------------------------------------------------------------------------

LexicographicalOrder(lhs, rhs) == VecLess(lhs, rhs)

ReverseLexicographicalOrder(lhs, rhs) == VecLess(rhs, lhs)

\* GradedLexicographicalOrder without the tie-break by LexicographicalOrder
GradedLexicographicalOrderDegreeOnly(lhs, rhs) ==
    TotalDegree(lhs) < TotalDegree(rhs)

GradedLexicographicalOrder(lhs, rhs) ==
    IF TotalDegree(lhs) = TotalDegree(rhs)
    THEN LexicographicalOrder(lhs, rhs)
    ELSE TotalDegree(lhs) < TotalDegree(rhs)

\* GradedReverseLexicographicalOrder without the tie-break
GradedReverseLexicographicalOrderDegreeOnly(lhs, rhs) ==
    TotalDegree(lhs) < TotalDegree(rhs)

GradedReverseLexicographicalOrder(lhs, rhs) ==
    IF TotalDegree(lhs) = TotalDegree(rhs)
    THEN ReverseLexicographicalOrder(lhs, rhs)
    ELSE TotalDegree(lhs) < TotalDegree(rhs)

\* the comparator MonomialOrder of Polynomial<FieldType, MonomialOrder>
MonomialOrder(o, lhs, rhs) ==
    CASE o = "Lex"          -> LexicographicalOrder(lhs, rhs)
      [] o = "RevLex"       -> ReverseLexicographicalOrder(lhs, rhs)
      [] o = "GradedLex"    -> GradedLexicographicalOrder(lhs, rhs)
      [] o = "GradedRevLex" -> GradedReverseLexicographicalOrder(lhs, rhs)

\* -------------------------------------------------------------------------
\* polynomial.h : terms_ is a map from Monomial to FieldType
\* -------------------------------------------------------------------------

\* Polynomial()
EmptyPolynomial == [m \in {} |-> Zero]

IsZero(p) == DOMAIN p = {}

GetAmountOfTerms(p) == Cardinality(DOMAIN p)

\* terms_.erase(foundTerm)
EraseTerm(p, m) == [k \in (DOMAIN p) \ {m} |-> p[k]]

\* terms_.insert : a key that is present keeps its value
InsertTerm(p, m, c) ==
    [k \in (DOMAIN p) \cup {m} |-> IF k \in DOMAIN p THEN p[k] ELSE c]

\* Polynomial::Shrink_ : erase the terms whose coefficient is 0
PolyShrink_(p) ==
    [k \in {m \in DOMAIN p : ~RatEq(p[m], Zero)} |-> p[k]]

\* terms_(terms) as the standard libraries build it: the terms of the list
\* are inserted in turn, and a term whose key is already present is not
\* inserted
RECURSIVE InsertTerms(_, _)
InsertTerms(p, terms) ==
    IF terms = << >> THEN p
    ELSE InsertTerms(InsertTerm(p, Head(terms)[1], Head(terms)[2]), Tail(terms))

\* Polynomial(std::initializer_list<Term> terms) : terms_(terms), Shrink_(),
\* with the first entry of a repeated key kept
PolynomialFromList(terms) == PolyShrink_(InsertTerms(EmptyPolynomial, terms))

\* terms_(terms) as the language defines it: each key of the list gets the
\* coefficient of one entry with that key, and which entry of a repeated key
\* is left open
MapsOfList(terms) ==
    { p \in [ { terms[i][1] : i \in 1..Len(terms) }
                -> { terms[i][2] : i \in 1..Len(terms) } ] :
        \A m \in DOMAIN p :
            \E i \in 1..Len(terms) : terms[i] = <<m, p[m]>> }

\* Polynomial(std::initializer_list<Term> terms) : every polynomial the
\* constructor can produce
PolynomialsFromList(terms) == { PolyShrink_(p) : p \in MapsOfList(terms) }

\* Polynomial(Monomial) : the coefficient is 1, no Shrink_
PolynomialOfMonomial(m) == InsertTerm(EmptyPolynomial, m, One)

\* explicit Polynomial(Term)
PolynomialOfTerm(m, c) == PolyShrink_(InsertTerm(EmptyPolynomial, m, c))

\* Polynomial(FieldType coefficient) : the key is the empty monomial
PolynomialOfCoefficient(c) == PolyShrink_(InsertTerm(EmptyPolynomial, <<>>, c))

\* the largest key of a non-empty key set under the order: *terms_.rbegin()
MaxKey(o, keys) ==
    CHOOSE m \in keys : \A k \in keys \ {m} : MonomialOrder(o, k, m)

\* the keys from begin() to end(), that is from the leading term downward
RECURSIVE KeysFromLeading(_, _)
\* the keys with the largest key m first
KeysFrom(o, keys, m) == <<m>> \o KeysFromLeading(o, keys \ {m})

KeysFromLeading(o, keys) ==
    IF keys = {} THEN << >> ELSE KeysFrom(o, keys, MaxKey(o, keys))

\* the term of p with the key m: a std::pair<const Monomial, FieldType>
TermOf(p, m) == <<m, p[m]>>

\* GetNthTerm counting from terms_.begin(), the smallest key
GetNthTermAscending(o, p, index) ==
    TermOf(p, KeysFromLeading(o, DOMAIN p)[GetAmountOfTerms(p) + 1 - index])

GetNthTerm(o, p, index) == TermOf(p, KeysFromLeading(o, DOMAIN p)[index])

\* GetLeadingTerm: *begin(); the polynomial is not zero
GetLeadingTerm(o, p) == TermOf(p, MaxKey(o, DOMAIN p))

\* terms_.insert(term) of a map ordered by o: the term is not inserted when
\* the map holds a key equivalent to m, one that o puts neither before nor
\* after m
InsertTermUnder(o, p, m, c) ==
    IF \E k \in DOMAIN p : ~MonomialOrder(o, k, m) /\ ~MonomialOrder(o, m, k)
    THEN p
    ELSE [k \in (DOMAIN p) \cup {m} |-> IF k = m THEN c ELSE p[k]]

\* the loop of the converting constructor over the terms of other
RECURSIVE ConvertTerms(_, _, _, _)
ConvertTerms(o, result, other, keys) ==
    IF keys = << >> THEN result
    ELSE ConvertTerms(o, InsertTermUnder(o, result, Head(keys), other[Head(keys)]),
                      other, Tail(keys))

\* Polynomial(const Polynomial<FieldType, OtherMonomialOrder> &other): other
\* is ordered by from, the constructed polynomial by to
ConvertOrder(from, to, other) ==
    ConvertTerms(to, EmptyPolynomial, other, KeysFromLeading(from, DOMAIN other))

\* foundTerm->second has become c, and the term is never erased
StoreCoefficientNoErase(p, m, c) == [p EXCEPT ![m] = c]

\* foundTerm->second has become c: erase the term when c is 0
StoreCoefficient(p, m, c) ==
    IF RatEq(c, Zero) THEN EraseTerm(p, m) ELSE [p EXCEPT ![m] = c]

AddTerm_(p, m, c) ==
    IF m \in DOMAIN p
    THEN StoreCoefficient(p, m, RatAdd(p[m], c))
    ELSE InsertTerm(p, m, c)

\* SubtractTerm_ inserting term.second where the key is absent
SubtractTermUnnegated_(p, m, c) ==
    IF m \in DOMAIN p
    THEN StoreCoefficient(p, m, RatSub(p[m], c))
    ELSE InsertTerm(p, m, c)

SubtractTerm_(p, m, c) ==
    IF m \in DOMAIN p
    THEN StoreCoefficient(p, m, RatSub(p[m], c))
    ELSE InsertTerm(p, m, RatNeg(c))

\* the loop of operator+= over the terms of other
RECURSIVE AddTerms(_, _, _)
AddTerms(p, other, keys) ==
    IF keys = << >> THEN p
    ELSE AddTerms(AddTerm_(p, Head(keys), other[Head(keys)]), other, Tail(keys))

\* operator+= and operator+
PolyAdd(o, lhs, rhs) == AddTerms(lhs, rhs, KeysFromLeading(o, DOMAIN rhs))

\* the loop of operator-= over the terms of other
RECURSIVE SubtractTerms(_, _, _)
SubtractTerms(p, other, keys) ==
    IF keys = << >> THEN p
    ELSE SubtractTerms(SubtractTerm_(p, Head(keys), other[Head(keys)]),
                       other, Tail(keys))

\* operator-= and operator-
PolySub(o, lhs, rhs) == SubtractTerms(lhs, rhs, KeysFromLeading(o, DOMAIN rhs))

\* the inner loop of operator* : one term of lhs times every term of rhs
RECURSIVE MulInner(_, _, _, _, _)
MulInner(result, lm, lc, rhs, rkeys) ==
    IF rkeys = << >> THEN result
    ELSE MulInner(AddTerm_(result, MonomialMul(lm, Head(rkeys)),
                           RatMul(lc, rhs[Head(rkeys)])),
                  lm, lc, rhs, Tail(rkeys))

\* the outer loop of operator*
RECURSIVE MulOuter(_, _, _, _, _)
MulOuter(result, lhs, lkeys, rhs, rkeys) ==
    IF lkeys = << >> THEN result
    ELSE MulOuter(MulInner(result, Head(lkeys), lhs[Head(lkeys)], rhs, rkeys),
                  lhs, Tail(lkeys), rhs, rkeys)

\* operator* and operator*=
PolyMul(o, lhs, rhs) ==
    MulOuter(EmptyPolynomial, lhs, KeysFromLeading(o, DOMAIN lhs),
             rhs, KeysFromLeading(o, DOMAIN rhs))

\* unary operator- : result *= Polynomial(-1)
PolyNeg(o, p) == PolyMul(o, p, PolynomialOfCoefficient(RationalInt(-1)))

\* the terms of terms_ from its begin(): ascending keys of the map of a
\* Polynomial<FieldType>, whose order is LexicographicalOrder
RECURSIVE TermsAscending(_, _)
TermsAscending(p, keys) ==
    IF keys = {} THEN << >>
    ELSE LET m == CHOOSE k \in keys :
                     \A j \in keys \ {k} : LexicographicalOrder(k, j)
         IN  <<(<<m, p[m]>>)>> \o TermsAscending(p, keys \ {m})

\* operator< of std::pair<const Monomial, FieldType>
TermLess(s, t) ==
    \/ MonomialLess(s[1], t[1])
    \/ ~MonomialLess(t[1], s[1]) /\ RatLess(s[2], t[2])

\* std::lexicographical_compare of two term sequences
RECURSIVE LexicographicalCompare(_, _)
LexicographicalCompare(a, b) ==
    IF b = << >> THEN FALSE
    ELSE IF a = << >> THEN TRUE
    ELSE IF TermLess(Head(a), Head(b)) THEN TRUE
    ELSE IF TermLess(Head(b), Head(a)) THEN FALSE
    ELSE LexicographicalCompare(Tail(a), Tail(b))

\* struct Less : lhs.terms_ < rhs.terms_
Less(lhs, rhs) ==
    LexicographicalCompare(TermsAscending(lhs, DOMAIN lhs),
                           TermsAscending(rhs, DOMAIN rhs))

\* the elements of a PolynomialSet from begin() to end()
RECURSIVE SetInOrder(_)
\* the elements with the smallest element f first
SetFrom(set, f) == <<f>> \o SetInOrder(set \ {f})

SetInOrder(set) ==
    IF set = {} THEN << >>
    ELSE SetFrom(set, CHOOSE p \in set : \A q \in set \ {p} : Less(p, q))

\* -------------------------------------------------------------------------
\* algorithms.h
\* -------------------------------------------------------------------------

Lcm(first, second) ==
    Monomial([index \in 1..Max2(GetAmountOfVariables(first),
                                GetAmountOfVariables(second)) |->
                Max2(GetDegree(first, index), GetDegree(second, index))])

\* SPolynomial with each side multiplied by its own leading coefficient
\* instead of the other's
SPolynomialOwnCoefficient(o, first, second) ==
    LET l1 == GetLeadingTerm(o, first)
        l2 == GetLeadingTerm(o, second)
        termsLCM == Lcm(l1[1], l2[1])
        left  == PolyMul(o, PolyMul(o, PolynomialOfMonomial(MonomialDiv(termsLCM, l1[1])),
                                    first),
                         PolynomialOfCoefficient(l1[2]))
        right == PolyMul(o, PolyMul(o, PolynomialOfMonomial(MonomialDiv(termsLCM, l2[1])),
                                    second),
                         PolynomialOfCoefficient(l2[2]))
    IN  PolySub(o, left, right)

\* SPolynomial with the two sides added instead of subtracted
SPolynomialAdded(o, first, second) ==
    LET l1 == GetLeadingTerm(o, first)
        l2 == GetLeadingTerm(o, second)
        termsLCM == Lcm(l1[1], l2[1])
        left  == PolyMul(o, PolyMul(o, PolynomialOfMonomial(MonomialDiv(termsLCM, l1[1])),
                                    first),
                         PolynomialOfCoefficient(l2[2]))
        right == PolyMul(o, PolyMul(o, PolynomialOfMonomial(MonomialDiv(termsLCM, l2[1])),
                                    second),
                         PolynomialOfCoefficient(l1[2]))
    IN  PolyAdd(o, left, right)

\* termsLCM / l1.first * first * l2.second - termsLCM / l2.first * second * l1.second
SPolynomialOfLcm(o, first, second, l1, l2, termsLCM) ==
    PolySub(o,
        PolyMul(o, PolyMul(o, PolynomialOfMonomial(MonomialDiv(termsLCM, l1[1])),
                           first),
                PolynomialOfCoefficient(l2[2])),
        PolyMul(o, PolyMul(o, PolynomialOfMonomial(MonomialDiv(termsLCM, l2[1])),
                           second),
                PolynomialOfCoefficient(l1[2])))

\* termsLCM = Lcm(l1.first, l2.first)
SPolynomialOfLeadingTerms(o, first, second, l1, l2) ==
    SPolynomialOfLcm(o, first, second, l1, l2, Lcm(l1[1], l2[1]))

\* l1 = first.GetLeadingTerm(), l2 = second.GetLeadingTerm()
SPolynomial(o, first, second) ==
    SPolynomialOfLeadingTerms(o, first, second,
                              GetLeadingTerm(o, first), GetLeadingTerm(o, second))

\* find_if run over the terms in ascending order: the last key, from the
\* leading term downward, that is divisible by lm
FindIfDivisibleLowest(keys, index, lm) ==
    LET found == { i \in index..Len(keys) : IsDivisibleBy(keys[i], lm) }
    IN  IF found = {} THEN 0
        ELSE CHOOSE i \in found : \A j \in found : j <= i

\* std::find_if from begin(): the first key, from the leading term downward,
\* that is divisible by lm; 0 stands for end()
RECURSIVE FindIfDivisible(_, _, _)
FindIfDivisible(keys, index, lm) ==
    IF index > Len(keys) THEN 0
    ELSE IF IsDivisibleBy(keys[index], lm) THEN index
    ELSE FindIfDivisible(keys, index + 1, lm)

\* ElementaryReduction after find_if: termToDivide is the index in keys of
\* the term found, 0 for end(); lt is other.GetLeadingTerm(). The result is
\* the returned flag and the value reducible is left with:
\* reducible -= Polynomial(quotient) * other, quotient the term
\* {termToDivide->first / lt.first, termToDivide->second / lt.second}
ElementaryReductionAt(o, reducible, other, lt, keys, termToDivide) ==
    IF termToDivide = 0
    THEN [ret |-> FALSE, reducible |-> reducible]
    ELSE [ret |-> TRUE,
          reducible |->
              PolySub(o, reducible,
                  PolyMul(o, PolynomialOfTerm(MonomialDiv(keys[termToDivide], lt[1]),
                                              RatDiv(reducible[keys[termToDivide]], lt[2])),
                          other))]

\* termToDivide = std::find_if(reducible.begin(), reducible.end(), ...)
ElementaryReductionFind(o, reducible, other, lt, keys) ==
    ElementaryReductionAt(o, reducible, other, lt, keys,
                          FindIfDivisible(keys, 1, lt[1]))

ElementaryReduction(o, reducible, other) ==
    ElementaryReductionFind(o, reducible, other, GetLeadingTerm(o, other),
                            KeysFromLeading(o, DOMAIN reducible))

RECURSIVE ChainLoop(_, _, _, _)
\* step is what the call of ElementaryReduction in the loop condition gave
ChainStep(o, step, other, reductionCount) ==
    IF step.ret
    THEN ChainLoop(o, step.reducible, other, reductionCount + 1)
    ELSE [ret |-> reductionCount, reducible |-> step.reducible]

\* while (ElementaryReduction(reducible, other)) ++reductionCount
ChainLoop(o, reducible, other, reductionCount) ==
    ChainStep(o, ElementaryReduction(o, reducible, other), other, reductionCount)

ChainOfElementaryReductions(o, reducible, other) ==
    ChainLoop(o, reducible, other, 0)

RECURSIVE ReductionLoop(_, _, _, _)
\* chain is what ChainOfElementaryReductions(reducible, f) gave, f the head
\* of others
ReductionStep(o, chain, others, reductionCount) ==
    ReductionLoop(o, chain.reducible, Tail(others), reductionCount + chain.ret)

\* for (const auto &f : other) reductionCount += ChainOfElementaryReductions(reducible, f)
ReductionLoop(o, reducible, others, reductionCount) ==
    IF others = << >>
    THEN [ret |-> reductionCount, reducible |-> reducible]
    ELSE ReductionStep(o, ChainOfElementaryReductions(o, reducible, Head(others)),
                       others, reductionCount)

ReductionOverSet(o, reducible, other) ==
    ReductionLoop(o, reducible, SetInOrder(other), 0)

\* ChainOfReductionsOverSet that stops after one pass over the set
ChainOverSetLoopOnce(o, reducible, other, overallReductionCount) ==
    LET last == ReductionOverSet(o, reducible, other)
    IN  [ret |-> overallReductionCount + last.ret, reducible |-> last.reducible]

RECURSIVE ChainOverSetLoop(_, _, _, _)
\* last is what the call of ReductionOverSet in the loop condition gave
ChainOverSetStep(o, last, other, overallReductionCount) ==
    IF last.ret # 0
    THEN ChainOverSetLoop(o, last.reducible, other,
                          overallReductionCount + last.ret)
    ELSE [ret |-> overallReductionCount, reducible |-> last.reducible]

\* while ((lastReductionCount = ReductionOverSet(reducible, other)) != 0)
ChainOverSetLoop(o, reducible, other, overallReductionCount) ==
    ChainOverSetStep(o, ReductionOverSet(o, reducible, other), other,
                     overallReductionCount)

ChainOfReductionsOverSet(o, reducible, other) ==
    ChainOverSetLoop(o, reducible, other, 0)

\* CheckLeadingTermsCoprime with the comparison inverted
CheckLeadingTermsCoprimeInverted(o, first, second) ==
    LET l1 == GetLeadingTerm(o, first)[1]
        l2 == GetLeadingTerm(o, second)[1]
    IN  MonomialMul(l1, l2) # Lcm(l1, l2)

\* l1 * l2 == Lcm(l1, l2)
CoprimeMonomials(l1, l2) == MonomialMul(l1, l2) = Lcm(l1, l2)

CheckLeadingTermsCoprime(o, first, second) ==
    CoprimeMonomials(GetLeadingTerm(o, first)[1], GetLeadingTerm(o, second)[1])

\* std::optional<Polynomial>: std::nullopt is the empty set, a value S is {S}
Nullopt == {}

\* if (S == Polynomial(0)) return std::nullopt; else return S
NulloptIfZero(S) ==
    IF S = PolynomialOfCoefficient(RationalInt(0)) THEN Nullopt ELSE {S}

CheckPair(o, first, second, set) ==
    IF CheckLeadingTermsCoprime(o, first, second) THEN Nullopt
    ELSE NulloptIfZero(
             ChainOfReductionsOverSet(o, SPolynomial(o, first, second), set).reducible)

\* if (S.has_value()) suitablePairs.insert(*S)
InsertIfHasValue(suitablePairs, S) ==
    IF S # Nullopt THEN suitablePairs \cup S ELSE suitablePairs

\* the inner loop of FindPairs: second runs from begin() until it meets first
RECURSIVE FindPairsInner(_, _, _, _, _, _)
FindPairsInner(o, set, elems, i, j, suitablePairs) ==
    IF j > Len(elems) \/ elems[i] = elems[j] THEN suitablePairs
    ELSE FindPairsInner(o, set, elems, i, j + 1,
             InsertIfHasValue(suitablePairs, CheckPair(o, elems[i], elems[j], set)))

\* the outer loop of FindPairs
RECURSIVE FindPairsOuter(_, _, _, _, _)
FindPairsOuter(o, set, elems, i, suitablePairs) ==
    IF i > Len(elems) THEN suitablePairs
    ELSE FindPairsOuter(o, set, elems, i + 1,
                        FindPairsInner(o, set, elems, i, 1, suitablePairs))

FindPairs(o, set) == FindPairsOuter(o, set, SetInOrder(set), 1, {})

\* ReductionOverSameSet that reduces set.begin() over the set it is still in
RECURSIVE SameSetLoopNoExtract(_, _, _, _)
SameSetLoopNoExtract(o, set, reducedSet, reductionCount) ==
    IF set = {} THEN [ret |-> reductionCount, set |-> reducedSet]
    ELSE LET first == Head(SetInOrder(set))
             rest  == set \ {first}
             r1 == ReductionOverSet(o, first, set)
             r2 == ReductionOverSet(o, r1.reducible, reducedSet)
         IN  SameSetLoopNoExtract(o, rest,
                         IF r2.reducible # PolynomialOfCoefficient(RationalInt(0))
                         THEN reducedSet \cup {r2.reducible}
                         ELSE reducedSet,
                         reductionCount + r1.ret + r2.ret)

RECURSIVE SameSetLoop(_, _, _, _)
\* r2 is what ReductionOverSet(reducible, reducedSet) gave: reducible is
\* inserted into reducedSet unless it is zero, and the loop goes on with set
SameSetInsert(o, set, reducedSet, r2, reductionCount) ==
    SameSetLoop(o, set,
                IF r2.reducible # PolynomialOfCoefficient(RationalInt(0))
                THEN reducedSet \cup {r2.reducible}
                ELSE reducedSet,
                reductionCount + r2.ret)

\* r1 is what ReductionOverSet(reducible, set) gave
SameSetReduced(o, set, reducedSet, r1, reductionCount) ==
    SameSetInsert(o, set, reducedSet,
                  ReductionOverSet(o, r1.reducible, reducedSet),
                  reductionCount + r1.ret)

\* reducible has been extracted from set
SameSetExtracted(o, set, reducedSet, reducible, reductionCount) ==
    SameSetReduced(o, set, reducedSet, ReductionOverSet(o, reducible, set),
                   reductionCount)

\* set.begin() is the element first
SameSetBegin(o, set, reducedSet, first, reductionCount) ==
    SameSetExtracted(o, set \ {first}, reducedSet, first, reductionCount)

\* the loop of ReductionOverSameSet: extract set.begin(), reduce it over the
\* rest of set and over reducedSet, keep it in reducedSet unless it is zero
SameSetLoop(o, set, reducedSet, reductionCount) ==
    IF set = {} THEN [ret |-> reductionCount, set |-> reducedSet]
    ELSE SameSetBegin(o, set, reducedSet, Head(SetInOrder(set)), reductionCount)

ReductionOverSameSet(o, set) == SameSetLoop(o, set, {}, 0)

RECURSIVE ChainSameSetLoop(_, _, _)
\* last is what the call of ReductionOverSameSet in the loop condition gave
ChainSameSetStep(o, last, overallReductionCount) ==
    IF last.ret # 0
    THEN ChainSameSetLoop(o, last.set, overallReductionCount + last.ret)
    ELSE [ret |-> overallReductionCount, set |-> last.set]

\* while ((lastReductionCount = ReductionOverSameSet(set)) != 0)
ChainSameSetLoop(o, set, overallReductionCount) ==
    ChainSameSetStep(o, ReductionOverSameSet(o, set), overallReductionCount)

ChainOfReductionsOverSameSet(o, set) == ChainSameSetLoop(o, set, 0)

\* NormalizeSetCoefficients that multiplies by the leading coefficient
NormalizeSetCoefficientsMultiplied(o, set) ==
    { PolyMul(o, f, PolynomialOfCoefficient(GetLeadingTerm(o, f)[2])) : f \in set }

\* f * (FieldType(1) / f.GetLeadingTerm().second) for every f of the set
NormalizeSetCoefficients(o, set) ==
    { PolyMul(o, f, PolynomialOfCoefficient(RatDiv(RationalInt(1),
                                                    GetLeadingTerm(o, f)[2])))
        : f \in set }

\* OptimizeSet without NormalizeSetCoefficients
OptimizeSetUnnormalized(o, set) == ChainOfReductionsOverSameSet(o, set).set

OptimizeSet(o, set) ==
    NormalizeSetCoefficients(o, ChainOfReductionsOverSameSet(o, set).set)

\* -------------------------------------------------------------------------
\* Inputs
\* -------------------------------------------------------------------------

\* the monomials of the generated input polynomials: 1, x0, x1, x0*x1
InputMonomials == { Monomial(<<a, b>>) : a \in 0..1, b \in 0..1 }

\* the coefficients of the generated input polynomials
InputCoefficients == { RationalInt(1), RationalInt(-2) }

\* the subsets of base with at most n elements
RECURSIVE SubsetsUpTo(_, _)
SubsetsUpTo(base, n) ==
    IF n = 0 THEN { {} }
    ELSE LET smaller == SubsetsUpTo(base, n - 1)
         IN  smaller \cup { s \cup {x} : s \in smaller, x \in base }

\* the generated input polynomials: one or two terms, none of them zero,
\* at most one coefficient other than 1
InputPolynomials ==
    { p \in UNION { [keys -> InputCoefficients] :
                        keys \in SubsetsUpTo(InputMonomials, 2) \ { {} } } :
        Cardinality({ m \in DOMAIN p : p[m] # One }) <= 1 }

\* a polynomial given by its initializer list of <<monomial, integer>> terms
PolynomialOf(terms) ==
    [m \in { t[1] : t \in terms } |->
        RationalInt((CHOOSE t \in terms : t[1] = m)[2])]

\* test.cpp, TestAlgorithms: the S-polynomial case
TestP1 == PolynomialOf({ <<(<<1, 1>>), 1>>, <<(<<1>>), 2>>, <<(<<0, 0, 1>>), -1>> })

TestP2 == PolynomialOf({ <<(<<2>>), 1>>, <<(<<0, 1>>), 2>>, <<(<<0, 0, 1>>), -1>> })

TestExpectedSPoly ==
    PolynomialOf({ <<(<<2>>), 2>>, <<(<<1, 0, 1>>), -1>>,
                   <<(<<0, 2>>), -2>>, <<(<<0, 1, 1>>), 1>> })

\* test.cpp, TestAlgorithms: the elementary reduction case
TestF == PolynomialOf({ <<(<<1, 1, 1>>), 1>> })

TestG == PolynomialOf({ <<(<<1, 1>>), 1>>, <<(<<0, 0, 0, 1>>), -1>> })

TestExpectedPolyReduction == PolynomialOf({ <<(<<0, 0, 1, 1>>), 1>> })

\* test.cpp, TestAlgorithms: the second Buchberger case
TestF1 ==
    PolynomialOf({ <<(<<2>>), -5>>, <<(<<1, 1>>), -4>>,
                   <<(<<1>>), -2>>, <<(<<0, 2>>), 2>> })

TestF2 ==
    PolynomialOf({ <<(<<1, 1>>), -4>>, <<(<<1>>), -2>>,
                   <<(<<0, 2>>), 2>>, <<(<<>>), 5>> })

\* the cyclic-3 generators
Cyclic3 ==
    { PolynomialOf({ <<(<<1>>), 1>>, <<(<<0, 1>>), 1>>, <<(<<0, 0, 1>>), 1>> }),
      PolynomialOf({ <<(<<1, 1>>), 1>>, <<(<<0, 1, 1>>), 1>>, <<(<<1, 0, 1>>), 1>> }),
      PolynomialOf({ <<(<<1, 1, 1>>), 1>>, <<(<<>>), -1>> }) }

TestSets == { {TestP1, TestP2}, {TestF, TestG}, {TestF1, TestF2}, Cyclic3 }

\* the input sets: every set of at most MaxSetSize generated polynomials, and
\* the sets of the tests
InputSets == (SubsetsUpTo(InputPolynomials, MaxSetSize) \ { {} }) \cup TestSets

\* the admissible orders of order.h
AdmissibleOrders == { "Lex", "GradedLex", "GradedRevLex" }

\* -------------------------------------------------------------------------
\* State
\* -------------------------------------------------------------------------

VARIABLES
    order,             \* the MonomialOrder of the polynomials
    input,             \* the PolynomialSet the caller built
    pc,                \* the position of the caller
    set,               \* BuhbergerAlgorithm, OptimizeSet: the parameter set
    polynomialsToAdd,  \* BuhbergerAlgorithm: the local polynomialsToAdd
    run,               \* the number of calls of BuhbergerAlgorithm, and of
                       \* operations on the Polynomial object, so far
    basis,             \* the set the first call of BuhbergerAlgorithm returned
    call,              \* the last call: its name, arguments and results
    rational,          \* a Rational object
    monomial,          \* a Monomial object
    polynomial         \* a Polynomial object

vars == <<order, input, pc, set, polynomialsToAdd, run, basis, call, rational, monomial, polynomial>>

\* a call record: the name of the function, its arguments first and second
\* (for the reductions: reducible and other), its set argument over, the
\* returned flag ret or count, the resulting value, and whether the call
\* ended in a throw
NoCall ==
    [op |-> "none", first |-> EmptyPolynomial, second |-> EmptyPolynomial,
     over |-> {}, ret |-> FALSE, count |-> 0, result |-> EmptyPolynomial,
     thrown |-> FALSE]

Init ==
    /\ order \in AdmissibleOrders
    /\ input \in InputSets
    /\ pc = "main"
    /\ set = input
    /\ polynomialsToAdd = {}
    /\ run = 0
    /\ basis = {}
    /\ call = NoCall
    /\ rational = Rat(0, 1)
    /\ monomial = << >>
    /\ polynomial = EmptyPolynomial

\* -------------------------------------------------------------------------
\* BuhbergerAlgorithm
\* -------------------------------------------------------------------------

\* the caller calls BuhbergerAlgorithm(set): the first call is on the input,
\* the second on the set the first call returned.  The step runs the body up
\* to the test of the while loop.
BuhbergerAlgorithm ==
    /\ pc \in {"main", "done"}
    /\ run < 2
    /\ run' = run + 1
    /\ basis' = IF pc = "done" THEN set ELSE basis
    /\ polynomialsToAdd' = FindPairs(order, set)
    /\ set' = OptimizeSet(order, set)
    /\ pc' = "while"
    /\ UNCHANGED <<order, input, call, rational, monomial, polynomial>>

\* the body of the while loop without set.merge(polynomialsToAdd)
LoopBodyWithoutMerge(toAdd, s) ==
    [polynomialsToAdd |-> FindPairs(order, s),
     set |-> OptimizeSet(order, s)]

\* the body of the while loop: merge, FindPairs, OptimizeSet
LoopBody(toAdd, s) ==
    LET merged == s \cup toAdd
    IN  [polynomialsToAdd |-> FindPairs(order, merged),
         set |-> OptimizeSet(order, merged)]

\* one iteration of the while loop
BuhbergerIteration ==
    /\ pc = "while"
    /\ polynomialsToAdd # {}
    /\ \E body \in {LoopBody(polynomialsToAdd, set)} :
          /\ polynomialsToAdd' = body.polynomialsToAdd
          /\ set' = body.set
    /\ UNCHANGED <<order, input, pc, run, basis, call, rational, monomial, polynomial>>

\* the while loop ends, BuhbergerAlgorithm returns
BuhbergerReturn ==
    /\ pc = "while"
    /\ polynomialsToAdd = {}
    /\ pc' = "done"
    /\ UNCHANGED <<order, input, set, polynomialsToAdd, run, basis, call, rational, monomial, polynomial>>

\* -------------------------------------------------------------------------
\* Calls of the other functions of algorithms.h on the elements of input
\* -------------------------------------------------------------------------

CallSPolynomial ==
    /\ pc = "main"
    /\ \E first \in input, second \in input :
          /\ input = {first, second}
          /\ call' = [NoCall EXCEPT !.op = "SPolynomial",
                                    !.first = first, !.second = second,
                                    !.result = SPolynomial(order, first, second)]
    /\ pc' = "returned"
    /\ UNCHANGED <<order, input, set, polynomialsToAdd, run, basis, rational, monomial, polynomial>>

CallElementaryReduction ==
    /\ pc = "main"
    /\ \E reducible \in input, other \in input :
          /\ input = {reducible, other}
          /\ \E r \in {ElementaryReduction(order, reducible, other)} :
                call' = [NoCall EXCEPT !.op = "ElementaryReduction",
                                      !.first = reducible, !.second = other,
                                      !.ret = r.ret, !.result = r.reducible]
    /\ pc' = "returned"
    /\ UNCHANGED <<order, input, set, polynomialsToAdd, run, basis, rational, monomial, polynomial>>

CallChainOfReductionsOverSet ==
    /\ pc = "main"
    /\ \E reducible \in input : \E other \in {input, input \ {reducible}} :
          \E r \in {ChainOfReductionsOverSet(order, reducible, other)} :
              call' = [NoCall EXCEPT !.op = "ChainOfReductionsOverSet",
                                    !.first = reducible, !.over = other,
                                    !.count = r.ret, !.result = r.reducible]
    /\ pc' = "returned"
    /\ UNCHANGED <<order, input, set, polynomialsToAdd, run, basis, rational, monomial, polynomial>>

CallOptimizeSet ==
    /\ pc = "main"
    /\ set' = OptimizeSet(order, set)
    /\ call' = [NoCall EXCEPT !.op = "OptimizeSet", !.over = set]
    /\ pc' = "returned"
    /\ UNCHANGED <<order, input, polynomialsToAdd, run, basis, rational, monomial, polynomial>>

Next ==
    \/ BuhbergerAlgorithm
    \/ BuhbergerIteration
    \/ BuhbergerReturn
    \/ CallSPolynomial
    \/ CallElementaryReduction
    \/ CallChainOfReductionsOverSet
    \/ CallOptimizeSet

Spec == Init /\ [][Next]_vars

\* ENABLED <<BuhbergerIteration>>_vars as a state predicate: the loop
\* condition holds and the body changes polynomialsToAdd or set
IterationEnabled ==
    /\ pc = "while"
    /\ polynomialsToAdd # {}
    /\ \E body \in {LoopBody(polynomialsToAdd, set)} :
          body.polynomialsToAdd # polynomialsToAdd \/ body.set # set

\* the while loop of BuhbergerAlgorithm is never left waiting: the function
\* runs on one thread, and every step of it that can be taken is taken. The
\* second conjunct is WF_vars(BuhbergerIteration) with its ENABLED written
\* out as IterationEnabled.
FairSpec ==
    /\ Spec
    /\ ([]<>(~IterationEnabled) \/ []<><<BuhbergerIteration>>_vars)
    /\ WF_vars(BuhbergerReturn)

\* -------------------------------------------------------------------------
\* A Rational object under its constructors and mutating operations
\* -------------------------------------------------------------------------

\* the integers handed to the constructors
ConstructorArguments == (-MaxOperand..MaxOperand) \cup {kMinValue, kMaxValue}

\* the right operands of +=, -=, *=, /=
Operands == { Rational(p, q) : p \in -MaxOperand..MaxOperand, q \in 1..MaxOperand }

\* Rational(): numerator_(0), denominator_(1)
InitRational ==
    /\ order = "Lex"
    /\ input = {}
    /\ pc = "rational"
    /\ set = {}
    /\ polynomialsToAdd = {}
    /\ run = 0
    /\ basis = {}
    /\ call = NoCall
    /\ rational = Rat(0, 1)
    /\ monomial = << >>
    /\ polynomial = EmptyPolynomial

\* what an operation of the object leaves alone
RationalFrame ==
    UNCHANGED <<order, input, pc, set, polynomialsToAdd, run, basis,
                monomial, polynomial>>

ConstructFromInteger ==
    /\ pc = "rational"
    /\ \E numerator \in ConstructorArguments :
          rational' = RationalInt(numerator)
    /\ call' = [NoCall EXCEPT !.op = "Rational(numerator)"]
    /\ RationalFrame

ConstructFromPair ==
    /\ pc = "rational"
    /\ \E numerator \in ConstructorArguments, denominator \in ConstructorArguments :
          /\ denominator # 0 => ~ReduceOverflows_(numerator, denominator)
          /\ \E r \in {ConstructCall(rational, numerator, denominator)} :
                /\ rational' = r.value
                /\ call' = [NoCall EXCEPT !.op = "Rational(numerator, denominator)",
                                          !.thrown = r.thrown]
    /\ RationalFrame

CallInvert ==
    /\ pc = "rational"
    /\ rational.num # 0 => ~ReduceOverflows_(rational.den, rational.num)
    /\ \E r \in {InvertCall(rational)} :
          /\ rational' = r.value
          /\ call' = [NoCall EXCEPT !.op = "Invert", !.thrown = r.thrown]
    /\ RationalFrame

\* r = -r
UnaryMinus ==
    /\ pc = "rational"
    /\ ~RatNegOverflows(rational)
    /\ rational' = RatNeg(rational)
    /\ call' = [NoCall EXCEPT !.op = "operator-"]
    /\ RationalFrame

PlusAssign ==
    /\ pc = "rational"
    /\ \E other \in Operands :
          /\ ~RatAddOverflows(rational, other)
          /\ rational' = RatAdd(rational, other)
    /\ call' = [NoCall EXCEPT !.op = "operator+="]
    /\ RationalFrame

MinusAssign ==
    /\ pc = "rational"
    /\ \E other \in Operands :
          /\ ~RatSubOverflows(rational, other)
          /\ rational' = RatSub(rational, other)
    /\ call' = [NoCall EXCEPT !.op = "operator-="]
    /\ RationalFrame

TimesAssign ==
    /\ pc = "rational"
    /\ \E other \in Operands :
          /\ ~RatMulOverflows(rational, other)
          /\ rational' = RatMul(rational, other)
    /\ call' = [NoCall EXCEPT !.op = "operator*="]
    /\ RationalFrame

DivideAssign ==
    /\ pc = "rational"
    /\ \E other \in Operands :
          /\ other.num # 0 => ~RatDivOverflows(rational, other)
          /\ \E r \in {DivideAssignCall(rational, other)} :
                /\ rational' = r.value
                /\ call' = [NoCall EXCEPT !.op = "operator/=", !.thrown = r.thrown]
    /\ RationalFrame

\* rational /= rational, the object nonzero
DivideAssignBySelf ==
    /\ pc = "rational"
    /\ rational.num # 0
    /\ ~DivideBySelfOverflows(rational)
    /\ rational' = DivideBySelf(rational)
    /\ call' = [NoCall EXCEPT !.op = "operator/=(*this)", !.first = rational]
    /\ RationalFrame

NextRational ==
    \/ ConstructFromInteger
    \/ ConstructFromPair
    \/ CallInvert
    \/ UnaryMinus
    \/ PlusAssign
    \/ MinusAssign
    \/ TimesAssign
    \/ DivideAssign
    \/ DivideAssignBySelf

SpecRational == InitRational /\ [][NextRational]_vars

\* -------------------------------------------------------------------------
\* The overflow predicates of OverflowDetector<IntegerType>
\* -------------------------------------------------------------------------

\* the values of IntegerType
IntegerValues == kMinValue..kMaxValue

InitOverflow ==
    /\ order = "Lex"
    /\ input = {}
    /\ pc = "overflow"
    /\ set = {}
    /\ polynomialsToAdd = {}
    /\ run = 0
    /\ basis = {}
    /\ call = NoCall
    /\ rational = Rat(0, 1)
    /\ monomial = << >>
    /\ polynomial = EmptyPolynomial

\* a static predicate reads and writes no object; the caller goes on
OverflowFrame ==
    /\ pc' = "returned"
    /\ UNCHANGED <<order, input, set, polynomialsToAdd, run, basis,
                   rational, monomial, polynomial>>

CallDoesUnaryMinusOverflow ==
    /\ pc = "overflow"
    /\ \E value \in IntegerValues :
          call' = [NoCall EXCEPT !.op = "DoesUnaryMinusOverflow",
                                !.first = value, !.second = 0,
                                !.ret = DoesUnaryMinusOverflow(value)]
    /\ OverflowFrame

CallDoesAdditionOverflow ==
    /\ pc = "overflow"
    /\ \E lhs \in IntegerValues, rhs \in IntegerValues :
          call' = [NoCall EXCEPT !.op = "DoesAdditionOverflow",
                                !.first = lhs, !.second = rhs,
                                !.ret = DoesAdditionOverflow(lhs, rhs)]
    /\ OverflowFrame

CallDoesSubtractionOverflow ==
    /\ pc = "overflow"
    /\ \E lhs \in IntegerValues, rhs \in IntegerValues :
          call' = [NoCall EXCEPT !.op = "DoesSubtractionOverflow",
                                !.first = lhs, !.second = rhs,
                                !.ret = DoesSubtractionOverflow(lhs, rhs)]
    /\ OverflowFrame

CallDoesMultiplicationOverflow ==
    /\ pc = "overflow"
    /\ \E lhs \in IntegerValues, rhs \in IntegerValues :
          call' = [NoCall EXCEPT !.op = "DoesMultiplicationOverflow",
                                !.first = lhs, !.second = rhs,
                                !.ret = DoesMultiplicationOverflow(lhs, rhs)]
    /\ OverflowFrame

CallDoesDivisionOverflow ==
    /\ pc = "overflow"
    /\ \E lhs \in IntegerValues, rhs \in IntegerValues :
          call' = [NoCall EXCEPT !.op = "DoesDivisionOverflow",
                                !.first = lhs, !.second = rhs,
                                !.ret = DoesDivisionOverflow(lhs, rhs)]
    /\ OverflowFrame

NextOverflow ==
    \/ CallDoesUnaryMinusOverflow
    \/ CallDoesAdditionOverflow
    \/ CallDoesSubtractionOverflow
    \/ CallDoesMultiplicationOverflow
    \/ CallDoesDivisionOverflow

SpecOverflow == InitOverflow /\ [][NextOverflow]_vars

\* -------------------------------------------------------------------------
\* A Monomial object under its constructors, operator*= and operator/=
\* -------------------------------------------------------------------------

\* the vectors handed to the constructors, trailing zeros included
RECURSIVE DegreeVectorsOfLength(_)
DegreeVectorsOfLength(n) ==
    IF n = 0 THEN { << >> }
    ELSE { Append(v, e) : v \in DegreeVectorsOfLength(n - 1), e \in 0..MaxExponent }

DegreeVectors == UNION { DegreeVectorsOfLength(n) : n \in 0..MaxVariables }

\* the right operands of *= and /=
MonomialOperands == { Monomial(v) : v \in DegreeVectors }

\* Monomial() = default
InitMonomial ==
    /\ order = "Lex"
    /\ input = {}
    /\ pc = "monomial"
    /\ set = {}
    /\ polynomialsToAdd = {}
    /\ run = 0
    /\ basis = {}
    /\ call = NoCall
    /\ rational = Rat(0, 1)
    /\ monomial = << >>
    /\ polynomial = EmptyPolynomial

\* what an operation of the object leaves alone
MonomialFrame ==
    UNCHANGED <<order, input, pc, set, polynomialsToAdd, run, basis,
                rational, polynomial>>

ConstructMonomial ==
    /\ pc = "monomial"
    /\ \E degrees \in DegreeVectors :
          /\ monomial' = Monomial(degrees)
          /\ call' = [NoCall EXCEPT !.op = "Monomial(degrees)",
                                    !.first = degrees, !.second = << >>,
                                    !.result = Monomial(degrees)]
    /\ MonomialFrame

\* monomial *= other, while no exponent exceeds MaxExponent
MonomialTimesAssign ==
    /\ pc = "monomial"
    /\ \E other \in MonomialOperands :
          /\ \A i \in 1..MaxVariables :
                GetDegree(monomial, i) + GetDegree(other, i) <= MaxExponent
          /\ monomial' = MonomialMul(monomial, other)
          /\ call' = [NoCall EXCEPT !.op = "operator*=",
                                    !.first = monomial, !.second = other,
                                    !.result = MonomialMul(monomial, other)]
    /\ MonomialFrame

\* monomial /= other
MonomialDivideAssign ==
    /\ pc = "monomial"
    /\ \E other \in MonomialOperands :
          \E r \in {MonomialDivideAssignCall(monomial, other)} :
              /\ monomial' = r.value
              /\ call' = [NoCall EXCEPT !.op = "operator/=",
                                        !.first = monomial, !.second = other,
                                        !.result = r.value, !.thrown = r.thrown]
    /\ MonomialFrame

NextMonomial ==
    \/ ConstructMonomial
    \/ MonomialTimesAssign
    \/ MonomialDivideAssign

SpecMonomial == InitMonomial /\ [][NextMonomial]_vars

\* -------------------------------------------------------------------------
\* The comparators of order.h applied to two monomials
\* -------------------------------------------------------------------------

\* the four order types of order.h
OrderTypes == { "Lex", "RevLex", "GradedLex", "GradedRevLex" }

InitOrder ==
    /\ order \in OrderTypes
    /\ input = {}
    /\ pc = "order"
    /\ set = {}
    /\ polynomialsToAdd = {}
    /\ run = 0
    /\ basis = {}
    /\ call = NoCall
    /\ rational = Rat(0, 1)
    /\ monomial = << >>
    /\ polynomial = EmptyPolynomial

\* MonomialOrder()(lhs, rhs)
CompareMonomials ==
    /\ pc = "order"
    /\ \E lhs \in MonomialOperands, rhs \in MonomialOperands :
          call' = [NoCall EXCEPT !.op = "MonomialOrder",
                                !.first = lhs, !.second = rhs,
                                !.ret = MonomialOrder(order, lhs, rhs)]
    /\ pc' = "returned"
    /\ UNCHANGED <<order, input, set, polynomialsToAdd, run, basis,
                   rational, monomial, polynomial>>

NextOrder == CompareMonomials

SpecOrder == InitOrder /\ [][NextOrder]_vars

\* -------------------------------------------------------------------------
\* A Polynomial object under its constructors, +=, -=, *=, unary minus and
\* GetNthTerm
\* -------------------------------------------------------------------------

\* the terms of the initializer lists: a monomial and a coefficient, 0 included
ListTerms ==
    { <<m, c>> : m \in InputMonomials,
                 c \in { RationalInt(0), RationalInt(1), RationalInt(-2) } }

RECURSIVE ListsOfLength(_)
ListsOfLength(n) ==
    IF n = 0 THEN { << >> }
    ELSE { Append(l, t) : l \in ListsOfLength(n - 1), t \in ListTerms }

\* test.cpp, TestOrder: the initializer list of lexOrder
TestOrderList ==
    << <<Monomial(<<1, 2, 3>>), RationalInt(1)>>,
       <<Monomial(<<1, 2, 4>>), RationalInt(1)>>,
       <<Monomial(<<2, 2, 2>>), RationalInt(1)>>,
       <<Monomial(<<6, 0, 0>>), RationalInt(1)>> >>

\* test.cpp, TestPolynomial: the initializer list of p1
TestPolynomialList ==
    << <<Monomial(<<1, 2, 3>>), RationalInt(1)>>,
       <<Monomial(<<0, 1>>), RationalInt(8)>> >>

\* the initializer lists: every list of at most MaxListLength terms, repeated
\* monomials and zero coefficients included, and the lists of the tests
InitializerLists ==
    UNION { ListsOfLength(n) : n \in 0..MaxListLength }
        \cup { TestOrderList, TestPolynomialList }

\* the right operands of +=, -= and *=: p1 and p2 of TestPolynomial, x0 + 2
\* and 2
PolynomialOperands ==
    { PolynomialFromList(TestPolynomialList),
      PolynomialOfMonomial(Monomial(<<1, 2, 3>>)),
      PolynomialOf({ <<(<<1>>), 1>>, <<(<< >>), 2>> }),
      PolynomialOfCoefficient(RationalInt(2)) }

\* the object is yet to be constructed
InitPolynomial ==
    /\ order \in OrderTypes
    /\ input = {}
    /\ pc = "construct"
    /\ set = {}
    /\ polynomialsToAdd = {}
    /\ run = 0
    /\ basis = {}
    /\ call = NoCall
    /\ rational = Rat(0, 1)
    /\ monomial = << >>
    /\ polynomial = EmptyPolynomial

\* what a constructor of the object leaves alone
ConstructorFrame ==
    /\ pc' = "polynomial"
    /\ UNCHANGED <<order, input, set, polynomialsToAdd, run, basis,
                   rational, monomial>>

\* Polynomial() = default
ConstructDefault ==
    /\ pc = "construct"
    /\ polynomial' = EmptyPolynomial
    /\ call' = [NoCall EXCEPT !.op = "Polynomial()"]
    /\ ConstructorFrame

\* what an operation of the object leaves alone; run counts the operations
OperationFrame ==
    /\ run' = run + 1
    /\ UNCHANGED <<order, input, pc, set, polynomialsToAdd, basis,
                   rational, monomial>>

ConstructFromList ==
    /\ pc = "construct"
    /\ \E terms \in InitializerLists :
          /\ polynomial' \in PolynomialsFromList(terms)
          /\ call' = [NoCall EXCEPT !.op = "Polynomial(terms)", !.first = terms]
    /\ ConstructorFrame

ConstructFromMonomial ==
    /\ pc = "construct"
    /\ \E m \in InputMonomials :
          /\ polynomial' = PolynomialOfMonomial(m)
          /\ call' = [NoCall EXCEPT !.op = "Polynomial(monomial)", !.first = m]
    /\ ConstructorFrame

ConstructFromTerm ==
    /\ pc = "construct"
    /\ \E term \in ListTerms :
          /\ polynomial' = PolynomialOfTerm(term[1], term[2])
          /\ call' = [NoCall EXCEPT !.op = "Polynomial(term)", !.first = term]
    /\ ConstructorFrame

ConstructFromCoefficient ==
    /\ pc = "construct"
    /\ \E term \in ListTerms :
          /\ polynomial' = PolynomialOfCoefficient(term[2])
          /\ call' = [NoCall EXCEPT !.op = "Polynomial(coefficient)",
                                    !.first = term[2]]
    /\ ConstructorFrame

PolynomialPlusAssign ==
    /\ pc = "polynomial"
    /\ run < MaxOperations
    /\ \E other \in PolynomialOperands :
          polynomial' = PolyAdd(order, polynomial, other)
    /\ call' = [NoCall EXCEPT !.op = "operator+="]
    /\ OperationFrame

PolynomialMinusAssign ==
    /\ pc = "polynomial"
    /\ run < MaxOperations
    /\ \E other \in PolynomialOperands :
          polynomial' = PolySub(order, polynomial, other)
    /\ call' = [NoCall EXCEPT !.op = "operator-="]
    /\ OperationFrame

PolynomialTimesAssign ==
    /\ pc = "polynomial"
    /\ run < MaxOperations
    /\ \E other \in PolynomialOperands :
          polynomial' = PolyMul(order, polynomial, other)
    /\ call' = [NoCall EXCEPT !.op = "operator*="]
    /\ OperationFrame

\* polynomial = -polynomial
PolynomialUnaryMinus ==
    /\ pc = "polynomial"
    /\ run < MaxOperations
    /\ polynomial' = PolyNeg(order, polynomial)
    /\ call' = [NoCall EXCEPT !.op = "operator-"]
    /\ OperationFrame

NextPolynomial ==
    \/ ConstructDefault
    \/ ConstructFromList
    \/ ConstructFromMonomial
    \/ ConstructFromTerm
    \/ ConstructFromCoefficient
    \/ PolynomialPlusAssign
    \/ PolynomialMinusAssign
    \/ PolynomialTimesAssign
    \/ PolynomialUnaryMinus

SpecPolynomial == InitPolynomial /\ [][NextPolynomial]_vars

\* -------------------------------------------------------------------------
\* GetNthTerm called on a constructed polynomial
\* -------------------------------------------------------------------------

\* the polynomials asked for a term: those of the initializer lists, and the
\* products of two operands
EnumeratedPolynomials ==
    UNION { PolynomialsFromList(terms) : terms \in InitializerLists }
        \cup { PolyMul("Lex", a, b) : a, b \in PolynomialOperands }

InitNthTerm ==
    /\ order \in OrderTypes
    /\ input = {}
    /\ pc = "terms"
    /\ set = {}
    /\ polynomialsToAdd = {}
    /\ run = 0
    /\ basis = {}
    /\ call = NoCall
    /\ rational = Rat(0, 1)
    /\ monomial = << >>
    /\ polynomial \in EnumeratedPolynomials

\* polynomial.GetNthTerm(index), index < terms_.size()
CallGetNthTerm ==
    /\ pc = "terms"
    /\ \E index \in 0..(GetAmountOfTerms(polynomial) - 1) :
          call' = [NoCall EXCEPT !.op = "GetNthTerm", !.count = index,
                                !.result = GetNthTerm(order, polynomial, index + 1)]
    /\ pc' = "returned"
    /\ UNCHANGED <<order, input, set, polynomialsToAdd, run, basis,
                   rational, monomial, polynomial>>

NextNthTerm == CallGetNthTerm

SpecNthTerm == InitNthTerm /\ [][NextNthTerm]_vars

\* -------------------------------------------------------------------------
\* The binary operators and unary minus of Polynomial
\* -------------------------------------------------------------------------

\* test.cpp, TestPolynomial: the expected p1 * p1
TestExpectedSquare ==
    PolynomialOf({ <<(<<2, 4, 6>>), 1>>, <<(<<1, 3, 3>>), 16>>,
                   <<(<<0, 2>>), 64>> })

InitArithmetic ==
    /\ order \in OrderTypes
    /\ input = {}
    /\ pc = "arithmetic"
    /\ set = {}
    /\ polynomialsToAdd = {}
    /\ run = 0
    /\ basis = {}
    /\ call = NoCall
    /\ rational = Rat(0, 1)
    /\ monomial = << >>
    /\ polynomial \in EnumeratedPolynomials

\* what an operator leaves alone: its operands are const
ArithmeticFrame ==
    /\ pc' = "returned"
    /\ UNCHANGED <<order, input, set, polynomialsToAdd, run, basis,
                   rational, monomial, polynomial>>

\* polynomial + rhs
CallPolynomialPlus ==
    /\ pc = "arithmetic"
    /\ \E rhs \in EnumeratedPolynomials :
          call' = [NoCall EXCEPT !.op = "operator+", !.second = rhs,
                                !.result = PolyAdd(order, polynomial, rhs)]
    /\ ArithmeticFrame

\* polynomial - rhs
CallPolynomialMinus ==
    /\ pc = "arithmetic"
    /\ \E rhs \in EnumeratedPolynomials :
          call' = [NoCall EXCEPT !.op = "operator-", !.second = rhs,
                                !.result = PolySub(order, polynomial, rhs)]
    /\ ArithmeticFrame

\* polynomial * rhs
CallPolynomialTimes ==
    /\ pc = "arithmetic"
    /\ \E rhs \in EnumeratedPolynomials :
          call' = [NoCall EXCEPT !.op = "operator*", !.second = rhs,
                                !.result = PolyMul(order, polynomial, rhs)]
    /\ ArithmeticFrame

\* -polynomial
CallPolynomialNegate ==
    /\ pc = "arithmetic"
    /\ call' = [NoCall EXCEPT !.op = "operator-()",
                              !.result = PolyNeg(order, polynomial)]
    /\ ArithmeticFrame

NextArithmetic ==
    \/ CallPolynomialPlus
    \/ CallPolynomialMinus
    \/ CallPolynomialTimes
    \/ CallPolynomialNegate

SpecArithmetic == InitArithmetic /\ [][NextArithmetic]_vars

\* -------------------------------------------------------------------------
\* A polynomial converted to another monomial order and back
\* -------------------------------------------------------------------------

InitConversion ==
    /\ order \in OrderTypes
    /\ input = {}
    /\ pc = "convert"
    /\ set = {}
    /\ polynomialsToAdd = {}
    /\ run = 0
    /\ basis = {}
    /\ call = NoCall
    /\ rational = Rat(0, 1)
    /\ monomial = << >>
    /\ polynomial \in EnumeratedPolynomials

\* Polynomial<FieldType, to> converted = polynomial
ConvertToOrder ==
    /\ pc = "convert"
    /\ \E to \in OrderTypes :
          call' = [NoCall EXCEPT !.op = "Polynomial(other)", !.first = to,
                                !.result = ConvertOrder(order, to, polynomial)]
    /\ pc' = "converted"
    /\ UNCHANGED <<order, input, set, polynomialsToAdd, run, basis,
                   rational, monomial, polynomial>>

\* Polynomial<FieldType, order> back = converted
ConvertBack ==
    /\ pc = "converted"
    /\ call' = [call EXCEPT !.op = "Polynomial(converted)",
                            !.second = ConvertOrder(call.first, order,
                                                    call.result)]
    /\ pc' = "returned"
    /\ UNCHANGED <<order, input, set, polynomialsToAdd, run, basis,
                   rational, monomial, polynomial>>

NextConversion ==
    \/ ConvertToOrder
    \/ ConvertBack

SpecConversion == InitConversion /\ [][NextConversion]_vars

\* -------------------------------------------------------------------------
\* FindPairs, one step of its loops at a time
\* -------------------------------------------------------------------------

\* the inner loop never breaking
BreaksNever(first, second) == FALSE

\* if (first == second) break
Breaks(first, second) == first = second

\* FindPairs(set) is entered: suitablePairs is polynomialsToAdd, first and
\* second are the elements of the set at the positions call.first and
\* call.second, and call.result lists the calls of CheckPair so far
InitFindPairs ==
    /\ order \in AdmissibleOrders
    /\ input \in InputSets
    /\ pc = "FindPairs"
    /\ set = input
    /\ polynomialsToAdd = {}
    /\ run = 0
    /\ basis = {}
    /\ call = [NoCall EXCEPT !.op = "FindPairs", !.first = 1, !.second = 1]
    /\ rational = Rat(0, 1)
    /\ monomial = << >>
    /\ polynomial = EmptyPolynomial

\* auto S = CheckPair(first, second, set); if (S.has_value()) insert;
\* computed tells whether CheckPair went on to SPolynomial
FindPairsCheckPair ==
    /\ pc = "FindPairs"
    /\ call.first <= Cardinality(set)
    /\ call.second <= Cardinality(set)
    /\ \E elems \in {SetInOrder(set)} :
          /\ ~Breaks(elems[call.first], elems[call.second])
          /\ polynomialsToAdd' =
                InsertIfHasValue(polynomialsToAdd,
                    CheckPair(order, elems[call.first], elems[call.second], set))
          /\ call' = [call EXCEPT
                !.second = call.second + 1,
                !.result = Append(call.result,
                    [first |-> elems[call.first],
                     second |-> elems[call.second],
                     computed |-> ~CheckLeadingTermsCoprime(order,
                                     elems[call.first], elems[call.second])])]
    /\ UNCHANGED <<order, input, pc, set, run, basis, rational, monomial,
                   polynomial>>

\* the inner loop ends, at the break or at set.end(): the next first
FindPairsNextFirst ==
    /\ pc = "FindPairs"
    /\ call.first <= Cardinality(set)
    /\ \/ call.second > Cardinality(set)
       \/ \E elems \in {SetInOrder(set)} :
             Breaks(elems[call.first], elems[call.second])
    /\ call' = [call EXCEPT !.first = call.first + 1, !.second = 1]
    /\ UNCHANGED <<order, input, pc, set, polynomialsToAdd, run, basis,
                   rational, monomial, polynomial>>

\* return suitablePairs
FindPairsReturn ==
    /\ pc = "FindPairs"
    /\ call.first > Cardinality(set)
    /\ pc' = "returned"
    /\ UNCHANGED <<order, input, set, polynomialsToAdd, run, basis, call,
                   rational, monomial, polynomial>>

NextFindPairs ==
    \/ FindPairsCheckPair
    \/ FindPairsNextFirst
    \/ FindPairsReturn

SpecFindPairs == InitFindPairs /\ [][NextFindPairs]_vars

\* -------------------------------------------------------------------------
\* ChainOfElementaryReductions and ChainOfReductionsOverSet, one call of
\* ElementaryReduction at a time. polynomial is reducible and set is other;
\* call.first keeps the reducible the call began with; call.second holds the
\* position f in the set of the polynomial reduced by and the reductionCount
\* of ReductionOverSet (pass) and of ChainOfElementaryReductions (chain);
\* call.count is overallReductionCount, and at the return the returned value;
\* run counts the calls of ElementaryReduction that returned true
\* -------------------------------------------------------------------------

\* the counters at the entry of a pass over the set
PassBegin == [f |-> 1, pass |-> 0, chain |-> 0]

\* a polynomial of an input set is reduced by one other polynomial of the
\* set, over the rest of the set or over the whole set
InitReduction ==
    /\ order \in OrderTypes
    /\ input \in InputSets
    /\ pc = "reducing"
    /\ polynomial \in input
    /\ \/ /\ set \in { input, input \ {polynomial} } \ { {} }
          /\ call = [NoCall EXCEPT !.op = "ChainOfReductionsOverSet",
                                   !.first = polynomial, !.second = PassBegin]
       \/ /\ set \in { {other} : other \in input \ {polynomial} }
          /\ call = [NoCall EXCEPT !.op = "ChainOfElementaryReductions",
                                   !.first = polynomial, !.second = PassBegin]
    /\ polynomialsToAdd = {}
    /\ run = 0
    /\ basis = {}
    /\ rational = Rat(0, 1)
    /\ monomial = << >>

\* what the reduction leaves alone
ReductionFrame ==
    UNCHANGED <<order, input, set, polynomialsToAdd, basis, rational, monomial>>

\* ElementaryReduction returns true without the ++reductionCount
ReducesUncounted ==
    /\ pc = "reducing"
    /\ call.second.f <= Cardinality(set)
    /\ run < MaxReductions
    /\ \E step \in {ElementaryReduction(order, polynomial,
                                         SetInOrder(set)[call.second.f])} :
          /\ step.ret
          /\ polynomial' = step.reducible
    /\ run' = run + 1
    /\ UNCHANGED <<pc, call>>
    /\ ReductionFrame

\* while (ElementaryReduction(reducible, other)) ++reductionCount : the call
\* returns true
Reduces ==
    /\ pc = "reducing"
    /\ call.second.f <= Cardinality(set)
    /\ run < MaxReductions
    /\ \E step \in {ElementaryReduction(order, polynomial,
                                         SetInOrder(set)[call.second.f])} :
          /\ step.ret
          /\ polynomial' = step.reducible
    /\ call' = [call EXCEPT !.second.chain = @ + 1]
    /\ run' = run + 1
    /\ UNCHANGED pc
    /\ ReductionFrame

\* ElementaryReduction returns false inside ReductionOverSet:
\* reductionCount += ChainOfElementaryReductions(reducible, f), the next f
ChainEndsInSet ==
    /\ pc = "reducing"
    /\ call.op = "ChainOfReductionsOverSet"
    /\ call.second.f <= Cardinality(set)
    /\ ~ElementaryReduction(order, polynomial,
                            SetInOrder(set)[call.second.f]).ret
    /\ call' = [call EXCEPT !.second = [f |-> @.f + 1,
                                        pass |-> @.pass + @.chain,
                                        chain |-> 0]]
    /\ UNCHANGED <<pc, run, polynomial>>
    /\ ReductionFrame

\* ElementaryReduction returns false in a call of
\* ChainOfElementaryReductions by the caller: return reductionCount
ChainOfElementaryReductionsReturns ==
    /\ pc = "reducing"
    /\ call.op = "ChainOfElementaryReductions"
    /\ ~ElementaryReduction(order, polynomial,
                            SetInOrder(set)[call.second.f]).ret
    /\ call' = [call EXCEPT !.count = call.second.chain]
    /\ pc' = "returned"
    /\ UNCHANGED <<run, polynomial>>
    /\ ReductionFrame

\* (lastReductionCount = ReductionOverSet(reducible, other)) != 0 :
\* overallReductionCount += lastReductionCount, another pass
PassReduced ==
    /\ pc = "reducing"
    /\ call.second.f > Cardinality(set)
    /\ call.second.pass # 0
    /\ call' = [call EXCEPT !.count = @ + call.second.pass,
                            !.second = PassBegin]
    /\ UNCHANGED <<pc, run, polynomial>>
    /\ ReductionFrame

\* lastReductionCount == 0 : return overallReductionCount
ChainOfReductionsOverSetReturns ==
    /\ pc = "reducing"
    /\ call.second.f > Cardinality(set)
    /\ call.second.pass = 0
    /\ pc' = "returned"
    /\ UNCHANGED <<run, polynomial, call>>
    /\ ReductionFrame

NextReduction ==
    \/ Reduces
    \/ ChainEndsInSet
    \/ ChainOfElementaryReductionsReturns
    \/ PassReduced
    \/ ChainOfReductionsOverSetReturns

\* the call of ElementaryReduction in the loop condition and the step after
\* it
ElementaryStep ==
    \/ Reduces
    \/ ChainEndsInSet
    \/ ChainOfElementaryReductionsReturns

\* ENABLED <<ElementaryStep>>_vars written out: a polynomial of the set is
\* left to reduce by, and the call is not about to exceed MaxReductions
\* elementary reductions
ElementaryStepEnabled ==
    /\ pc = "reducing"
    /\ call.second.f <= Cardinality(set)
    /\ \/ run < MaxReductions
       \/ ~ElementaryReduction(order, polynomial,
                               SetInOrder(set)[call.second.f]).ret

\* the reduction runs on one thread and is never left waiting: every step of
\* it that can be taken is taken. The second conjunct is
\* WF_vars(ElementaryStep) with its ENABLED written out.
SpecReduction ==
    /\ InitReduction /\ [][NextReduction]_vars
    /\ ([]<>(~ElementaryStepEnabled) \/ []<><<ElementaryStep>>_vars)
    /\ WF_vars(PassReduced)
    /\ WF_vars(ChainOfReductionsOverSetReturns)

\* -------------------------------------------------------------------------
\* cyclic.h
\* -------------------------------------------------------------------------

\* the loop of BuildCyclePolymonial: temp[i] = 0, temp[(i + n) % m] = 1,
\* f += Monomial(temp); temp[i] of the code is temp[i + 1] here
RECURSIVE CycleLoop(_, _, _, _, _, _)
CycleLoop(o, f, temp, i, n, m) ==
    IF ~(i < m - 1) THEN f
    ELSE LET moved == [[temp EXCEPT ![i + 1] = 0]
                           EXCEPT ![((i + n) % m) + 1] = 1]
         IN  CycleLoop(o, PolyAdd(o, f, PolynomialOfMonomial(Monomial(moved))),
                       moved, i + 1, n, m)

\* Monomial::DegreeVector temp(m) with temp[0..n-1] = 1
FirstWindow(n, m) == [k \in 1..m |-> IF k <= n THEN 1 ELSE 0]

\* BuildCyclePolymonial(n, m)
BuildCyclePolymonial(o, n, m) ==
    IF n = m
    THEN PolyAdd(o, EmptyPolynomial,
                 PolynomialOfMonomial(Monomial(FirstWindow(n, m))))
    ELSE CycleLoop(o, PolyAdd(o, EmptyPolynomial,
                              PolynomialOfMonomial(Monomial(FirstWindow(n, m)))),
                   FirstWindow(n, m), 0, n, m)

\* BuildCycleSet adding 1 for an odd m and -1 for an even m, as
\* BuildWrongCycleSet does
BuildCycleSetSignByParity(o, m) ==
    { IF n = m
      THEN PolyAdd(o, BuildCyclePolymonial(o, n, m),
                   PolynomialOfCoefficient(
                       RationalInt(IF m % 2 = 1 THEN 1 ELSE -1)))
      ELSE BuildCyclePolymonial(o, n, m) : n \in 1..m }

\* BuildCycleSet(m): temp += FieldType(-1) when n == m, ans.insert(temp)
BuildCycleSet(o, m) ==
    { IF n = m
      THEN PolyAdd(o, BuildCyclePolymonial(o, n, m),
                   PolynomialOfCoefficient(RationalInt(-1)))
      ELSE BuildCyclePolymonial(o, n, m) : n \in 1..m }

InitCyclic ==
    /\ order \in OrderTypes
    /\ input = {}
    /\ pc = "cyclic"
    /\ set = {}
    /\ polynomialsToAdd = {}
    /\ run = 0
    /\ basis = {}
    /\ call = NoCall
    /\ rational = Rat(0, 1)
    /\ monomial = << >>
    /\ polynomial = EmptyPolynomial

\* polynomial = BuildCyclePolymonial(n, m), 1 <= n <= m
CallBuildCyclePolymonial ==
    /\ pc = "cyclic"
    /\ \E m \in 1..MaxCycleSize :
          \E n \in 1..m :
             /\ polynomial' = BuildCyclePolymonial(order, n, m)
             /\ call' = [NoCall EXCEPT !.op = "BuildCyclePolymonial",
                                       !.first = n, !.count = m]
    /\ pc' = "returned"
    /\ UNCHANGED <<order, input, set, polynomialsToAdd, run, basis,
                   rational, monomial>>

\* set = BuildCycleSet(m), m >= 1
CallBuildCycleSet ==
    /\ pc = "cyclic"
    /\ \E m \in 1..MaxCycleSize :
          /\ set' = BuildCycleSet(order, m)
          /\ call' = [NoCall EXCEPT !.op = "BuildCycleSet", !.count = m]
    /\ pc' = "returned"
    /\ UNCHANGED <<order, input, polynomialsToAdd, run, basis,
                   rational, monomial, polynomial>>

NextCyclic ==
    \/ CallBuildCyclePolymonial
    \/ CallBuildCycleSet

SpecCyclic == InitCyclic /\ [][NextCyclic]_vars
\* -------------------------------------------------------------------------

\* the leading monomial and the leading coefficient under the order in use
LM(p) == GetLeadingTerm(order, p)[1]

LC(p) == GetLeadingTerm(order, p)[2]

\* d divides m: no exponent of d exceeds the exponent of m
Divides(d, m) ==
    \A i \in 1..Max2(Len(d), Len(m)) : GetDegree(d, i) <= GetDegree(m, i)

\* exact arithmetic of fractions num/den, den # 0, with no normal form
FrMul(a, b) == [num |-> a.num * b.num, den |-> a.den * b.den]

FrSub(a, b) == [num |-> a.num * b.den - b.num * a.den, den |-> a.den * b.den]

FrDiv(a, b) == [num |-> a.num * b.den, den |-> a.den * b.num]

FrAdd(a, b) == [num |-> a.num * b.den + b.num * a.den, den |-> a.den * b.den]

FrNeg(a) == [num |-> 0 - a.num, den |-> a.den]

FrEq(a, b) == a.num * b.den = b.num * a.den

\* r is the reduced representation of the fraction fr: the same number, with
\* a positive denominator and no common divisor above 1
IsReducedFormOf(r, fr) ==
    /\ FrEq(r, fr)
    /\ r.den > 0
    /\ \A k \in 2..r.den : ~(Abs(r.num) % k = 0 /\ r.den % k = 0)

\* the coefficient of the monomial m in u * p, u a monomial: p[m / u], 0 when
\* p has no such term
CoefficientOfShifted(p, u, m) ==
    IF \E k \in DOMAIN p : MonomialMul(u, k) = m
    THEN p[CHOOSE k \in DOMAIN p : MonomialMul(u, k) = m]
    ELSE Zero

\* the monomials that u * p has
ShiftedKeys(p, u) == { MonomialMul(u, k) : k \in DOMAIN p }

\* result is the polynomial a * u * f - b * v * g (a, b fractions, u, v
\* monomials): term by term, holding exactly the terms that do not cancel
IsCombination(result, a, u, f, b, v, g) ==
    \A m \in (DOMAIN result) \cup ShiftedKeys(f, u) \cup ShiftedKeys(g, v) :
        LET e == FrSub(FrMul(a, CoefficientOfShifted(f, u, m)),
                       FrMul(b, CoefficientOfShifted(g, v, m)))
        IN  IF e.num = 0 THEN m \notin DOMAIN result
            ELSE m \in DOMAIN result /\ FrEq(result[m], e) /\ CheckInvariants_(result[m])

\* the normal form of p over a set: p fully reduced by ChainOfReductionsOverSet
NormalForm(p, over) == ChainOfReductionsOverSet(order, p, over).reducible

\* -------------------------------------------------------------------------
\* Properties
\* -------------------------------------------------------------------------

\* C1: when BuhbergerAlgorithm has returned, the S-polynomial of every pair
\* of elements of the resulting set, fully reduced over that set, is zero.
SPolynomialsReduceToZero ==
    pc = "done" =>
        \A f \in set, g \in set :
            NormalForm(SPolynomial(order, f, g), set) = EmptyPolynomial

\* a returned basis that the loop completed, with a pair of elements whose
\* leading monomials are not coprime and whose S-polynomial is not zero
WitnessSPolynomialsReduceToZero ==
    /\ pc = "done"
    /\ run = 1
    /\ set # OptimizeSet(order, input)
    /\ \E f \in set, g \in set :
          /\ f # g
          /\ ~CheckLeadingTermsCoprime(order, f, g)
          /\ SPolynomial(order, f, g) # EmptyPolynomial

\* C2: BuhbergerAlgorithm terminates: once in its while loop, it reaches the
\* iteration in which FindPairs returned the empty set, and returns.
BuhbergerTerminates == (pc = "while") ~> (pc = "done")

\* a call that returned with a set that the iterations of the loop changed
WitnessBuhbergerTerminates ==
    /\ pc = "done"
    /\ run = 1
    /\ set # OptimizeSet(order, input)
    /\ Cardinality(set) > Cardinality(input)

\* C3: BuhbergerAlgorithm run on the set it produced leaves it unchanged.
BuhbergerIdempotent ==
    (pc = "done" /\ run = 2) => set = basis

\* the second call returned, on a basis that differs from the input
WitnessBuhbergerIdempotent ==
    /\ pc = "done"
    /\ run = 2
    /\ basis # input
    /\ Cardinality(basis) >= 2

\* C4: every generator of the input, fully reduced over the returned basis,
\* is the zero polynomial.
InputsReduceToZero ==
    pc = "done" =>
        \A f \in input : NormalForm(f, set) = EmptyPolynomial

\* the cyclic-3 ideal: the basis is returned and has lost an input generator
WitnessInputsReduceToZero ==
    /\ pc = "done"
    /\ input = Cyclic3
    /\ \E f \in input : f \notin set

\* S is reduced and monic
ReducedAndMonic(S) ==
    \A f \in S :
        /\ f # EmptyPolynomial
        /\ LC(f) = One
        /\ \A g \in S \ {f} : \A m \in DOMAIN f : ~Divides(LM(g), m)

\* C5: after OptimizeSet the set holds no zero polynomial, every element has
\* leading coefficient 1, and no term of an element is divisible by the
\* leading monomial of a different element.
OptimizeSetReducedMonic ==
    (call.op = "OptimizeSet" \/ pc \in {"while", "done"}) => ReducedAndMonic(set)

\* OptimizeSet changed a set that had an element with a leading coefficient
\* other than 1 and a term divisible by another element's leading monomial
WitnessOptimizeSetReducedMonic ==
    /\ call.op = "OptimizeSet"
    /\ Cardinality(set) >= 2
    /\ \E f \in input : LC(f) # One
    /\ \E f \in input, g \in input :
          f # g /\ \E m \in DOMAIN f : Divides(LM(g), m)

\* C6: when ChainOfReductionsOverSet(r, S) returns, no term of r has a
\* monomial divisible by the leading monomial of an element of S.
ChainOverSetNormalForm ==
    call.op = "ChainOfReductionsOverSet" =>
        \A h \in call.over : \A m \in DOMAIN call.result : ~Divides(LM(h), m)

\* a chain of several reductions over a set of two that left a nonzero r
WitnessChainOverSetNormalForm ==
    /\ call.op = "ChainOfReductionsOverSet"
    /\ Cardinality(call.over) >= 2
    /\ call.count >= 2
    /\ call.result # EmptyPolynomial

\* the factors L/LM(f) and L/LM(g), L = lcm(LM(f), LM(g))
Cofactor(f, g) == MonomialDiv(Lcm(LM(f), LM(g)), LM(f))

\* C7 as stated: SPolynomial(f, g) is
\* (L/LM(f)) * (1/LC(f)) * f - (L/LM(g)) * (1/LC(g)) * g, also when the
\* leading coefficients are not 1.
SPolynomialDividesByLeadingCoefficients ==
    call.op = "SPolynomial" =>
        IsCombination(call.result,
                      FrDiv(One, LC(call.first)), Cofactor(call.first, call.second),
                      call.first,
                      FrDiv(One, LC(call.second)), Cofactor(call.second, call.first),
                      call.second)

\* C7 amended: SPolynomial(f, g) is
\* (L/LM(f)) * LC(g) * f - (L/LM(g)) * LC(f) * g, which is the stated
\* polynomial when both leading coefficients are 1, as in the test case.
SPolynomialCrossMultiplies ==
    call.op = "SPolynomial" =>
        /\ IsCombination(call.result,
                         LC(call.second), Cofactor(call.first, call.second),
                         call.first,
                         LC(call.first), Cofactor(call.second, call.first),
                         call.second)
        /\ (call.first = TestP1 /\ call.second = TestP2) =>
               call.result = TestExpectedSPoly

\* the S-polynomial of two polynomials with leading coefficients other than 1
WitnessSPolynomialCrossMultiplies ==
    /\ call.op = "SPolynomial"
    /\ LC(call.first) # One
    /\ LC(call.second) # One
    /\ LC(call.first) # LC(call.second)
    /\ call.result # EmptyPolynomial

\* C8: SPolynomial(f, g) is zero or its leading monomial is strictly less
\* than lcm(LM(f), LM(g)) under the order in use.
SPolynomialLeadingTermsCancel ==
    call.op = "SPolynomial" =>
        \/ call.result = EmptyPolynomial
        \/ MonomialOrder(order, LM(call.result), Lcm(LM(call.first), LM(call.second)))

\* a nonzero S-polynomial of two different polynomials
WitnessSPolynomialLeadingTermsCancel ==
    /\ call.op = "SPolynomial"
    /\ call.first # call.second
    /\ call.result # EmptyPolynomial
    /\ GetAmountOfTerms(call.first) >= 2
    /\ GetAmountOfTerms(call.second) >= 2

\* the terms of r that the leading monomial of h divides
Eligible(r, h) == { m \in DOMAIN r : Divides(LM(h), m) }

\* C9: ElementaryReduction(r, h) returns false and leaves r unchanged when no
\* term of r is divisible by LM(h); otherwise it takes the highest such term
\* (m, c), replaces r by r - (m/LM(h), c/LC(h)) * h and returns true, and r
\* has no term with monomial m any more.
ElementaryReductionHighestTerm ==
    call.op = "ElementaryReduction" =>
        LET r == call.first
            h == call.second
        IN  IF Eligible(r, h) = {}
            THEN call.ret = FALSE /\ call.result = r
            ELSE LET m == MaxKey(order, Eligible(r, h))
                 IN  /\ call.ret = TRUE
                     /\ m \notin DOMAIN call.result
                     /\ IsCombination(call.result, One, << >>, r,
                                      FrDiv(r[m], LC(h)), MonomialDiv(m, LM(h)), h)
                     /\ (r = TestF /\ h = TestG) =>
                            call.result = TestExpectedPolyReduction

\* a reduction of a polynomial with two eligible terms
WitnessElementaryReductionHighestTerm ==
    /\ call.op = "ElementaryReduction"
    /\ call.ret = TRUE
    /\ Cardinality(Eligible(call.first, call.second)) >= 2
    /\ call.result # EmptyPolynomial

\* C10: every Rational value reached through the constructors and any
\* sequence of +=, -=, *=, /=, unary minus and Invert in which nothing
\* overflows has a positive denominator, a numerator and a denominator with
\* no common divisor above 1, and the representation (0, 1) when it is zero;
\* so Rational(2,4) == Rational(1,2), Rational(0,5) == Rational(0) and
\* Rational(-1,2) == Rational(1,-2).
RationalInvariant ==
    /\ rational.den > 0
    /\ \A k \in 2..rational.den :
          ~(Abs(rational.num) % k = 0 /\ rational.den % k = 0)
    /\ rational.num = 0 => rational.den = 1
    /\ RatEq(Rational(2, 4), Rational(1, 2))
    /\ RatEq(Rational(0, 5), RationalInt(0))
    /\ RatEq(Rational(-1, 2), Rational(1, -2))

\* -1/2 += 1/3 has left the object at -1/6
WitnessRationalInvariant ==
    /\ call.op = "operator+="
    /\ rational = Rat(-1, 6)

\* the calls of Rational that have a throw statement
ThrowingCalls == { "Rational(numerator, denominator)", "Invert", "operator/=" }

\* for the value a of the object: the three calls throw exactly on a zero
\* denominator, a zero numerator of a and a zero numerator of the divisor,
\* and a call that throws leaves a as it was
ThrowsExactlyOnZero(a) ==
    /\ \A numerator \in ConstructorArguments, denominator \in ConstructorArguments :
          /\ ConstructCall(a, numerator, denominator).thrown <=> denominator = 0
          /\ denominator = 0 => ConstructCall(a, numerator, denominator).value = a
    /\ InvertCall(a).thrown <=> a.num = 0
    /\ a.num = 0 => InvertCall(a).value = a
    /\ \A other \in Operands :
          /\ DivideAssignCall(a, other).thrown <=> other.num = 0
          /\ other.num = 0 => DivideAssignCall(a, other).value = a

\* C11: Rational throws exactly in the construction Rational(p, 0), in Invert
\* of a value with numerator 0 and in /= by a value with numerator 0; no
\* other call throws, and a call that throws has modified no field: the
\* object keeps the value it had.
RationalThrowsBeforeModifying ==
    /\ [](call.thrown => call.op \in ThrowingCalls)
    /\ [](ThrowsExactlyOnZero(rational))
    /\ [][call'.thrown => rational' = rational]_vars

\* -1/6 /= 0 has thrown and the object is still -1/6
WitnessRationalThrowsBeforeModifying ==
    /\ call.op = "operator/="
    /\ call.thrown
    /\ rational = Rat(-1, 6)

\* the results of the operations on a and b are the reduced representations
\* of the exact results, for each operation that does not overflow
ExactOn(a, b) ==
    /\ ~RatAddOverflows(a, b) => IsReducedFormOf(RatAdd(a, b), FrAdd(a, b))
    /\ ~RatSubOverflows(a, b) => IsReducedFormOf(RatSub(a, b), FrSub(a, b))
    /\ ~RatMulOverflows(a, b) => IsReducedFormOf(RatMul(a, b), FrMul(a, b))
    /\ (b.num # 0 /\ ~RatDivOverflows(a, b)) =>
           IsReducedFormOf(RatDiv(a, b), FrDiv(a, b))

\* C12: for every reachable value a and every operand b, in the operations
\* where nothing overflows, a + b, a - b, a * b, a / b (b # 0), -a and
\* GetInverted(a) (a # 0) are the reduced representations of the exact
\* results; (-1/2) + (1/3) = -1/6, (-1/2) * (-2/3) = 1/3, 1/3 - 2/6 = 0 and
\* 1/2 inverted is 2.
RationalArithmeticExact ==
    /\ \A b \in Operands : ExactOn(rational, b) /\ ExactOn(b, rational)
    /\ ~RatNegOverflows(rational) =>
           IsReducedFormOf(RatNeg(rational), FrNeg(rational))
    /\ (rational.num # 0 /\ ~ReduceOverflows_(rational.den, rational.num)) =>
           IsReducedFormOf(GetInverted(rational), FrDiv(One, rational))
    /\ RatAdd(Rational(-1, 2), Rational(1, 3)) = Rat(-1, 6)
    /\ RatMul(Rational(-1, 2), Rational(-2, 3)) = Rat(1, 3)
    /\ RatSub(Rational(1, 3), Rational(2, 6)) = Rat(0, 1)
    /\ GetInverted(Rational(1, 2)) = Rat(2, 1)

\* a product has left the object at 5/18, whose sums and quotients with the
\* operands need a common denominator and a reduction
WitnessRationalArithmeticExact ==
    /\ call.op = "operator*="
    /\ rational = Rat(5, 18)
    /\ ~RatAddOverflows(rational, Rational(1, 3))
    /\ RatAdd(rational, Rational(1, 3)) = Rat(11, 18)

\* v is a value of IntegerType
InRange(v) == kMinValue <= v /\ v <= kMaxValue

\* C13: DoesUnaryMinusOverflow(a), DoesAdditionOverflow(a, b),
\* DoesSubtractionOverflow(a, b) and DoesMultiplicationOverflow(a, b) return
\* true exactly when -a, a + b, a - b, a * b computed in the integers lies
\* outside [kMinValue, kMaxValue], for all a, b of the type.
OverflowPredicatesExact ==
    /\ call.op = "DoesUnaryMinusOverflow" =>
           (call.ret <=> ~InRange(0 - call.first))
    /\ call.op = "DoesAdditionOverflow" =>
           (call.ret <=> ~InRange(call.first + call.second))
    /\ call.op = "DoesSubtractionOverflow" =>
           (call.ret <=> ~InRange(call.first - call.second))
    /\ call.op = "DoesMultiplicationOverflow" =>
           (call.ret <=> ~InRange(call.first * call.second))

\* kMinValue * -1 is reported to overflow
WitnessOverflowPredicatesExact ==
    /\ call.op = "DoesMultiplicationOverflow"
    /\ call.first = kMinValue
    /\ call.second = -1
    /\ call.ret = TRUE

\* C14 as stated: DoesDivisionOverflow(a, b) returns true exactly when b = 0
\* or a = kMinValue and b = -1, and false for every other pair, a = -1 and
\* b = kMinValue included.
DivisionOverflowExact ==
    call.op = "DoesDivisionOverflow" =>
        (call.ret <=> (call.second = 0
                       \/ (call.first = kMinValue /\ call.second = -1)))

\* the exponent vector is empty or its last exponent is positive
IsShrunk(m) == Len(m) = 0 \/ m[Len(m)] > 0

\* C15: the Monomial object is shrunk after every constructor and every
\* multiplication and division that returned: its vector is empty or ends
\* in a positive exponent; Monomial{1,2,3,0} == Monomial{1,2,3}, and
\* GetDegree is 0 at every index beyond the stored length.
MonomialShrunk ==
    /\ ~call.thrown => IsShrunk(monomial)
    /\ Monomial(<<1, 2, 3, 0>>) = Monomial(<<1, 2, 3>>)
    /\ \A i \in (Len(monomial) + 1)..(MaxVariables + 1) : GetDegree(monomial, i) = 0

\* a division has cancelled the exponents of the last two variables
WitnessMonomialShrunk ==
    /\ call.op = "operator/="
    /\ ~call.thrown
    /\ Len(call.first) = MaxVariables
    /\ Len(monomial) = 0

\* some exponent of b exceeds the exponent of a, the variables beyond the
\* stored length having exponent 0
ExceedsSomewhere(a, b) ==
    \E i \in 1..Max2(Len(a), Len(b)) : GetDegree(b, i) > GetDegree(a, i)

Precedes(a, b) == MonomialOrder(order, a, b)

\* on the compared pair a, b and every third monomial c, the order in use is
\* a strict total order compatible with multiplication
StrictTotalMultiplicative(a, b) ==
    /\ ~Precedes(a, a)
    /\ ~(Precedes(a, b) /\ Precedes(b, a))
    /\ a # b => (Precedes(a, b) \/ Precedes(b, a))
    /\ \A c \in MonomialOperands :
          /\ (Precedes(a, b) /\ Precedes(b, c)) => Precedes(a, c)
          /\ Precedes(a, b) => Precedes(MonomialMul(a, c), MonomialMul(b, c))

\* C17 as stated: each of the four comparators is a strict total order,
\* compatible with multiplication, with the empty monomial as its minimum.
AllOrdersAdmissible ==
    call.op = "MonomialOrder" =>
        /\ call.ret = Precedes(call.first, call.second)
        /\ StrictTotalMultiplicative(call.first, call.second)
        /\ call.first # << >> => Precedes(<< >>, call.first)

\* C17 amended: each of the four comparators is a strict total order
\* compatible with multiplication; the empty monomial is the minimum under
\* Lex, GradedLex and GradedRevLex, and the maximum under RevLex.
OrdersAdmissibleButRevLex ==
    call.op = "MonomialOrder" =>
        /\ call.ret = Precedes(call.first, call.second)
        /\ StrictTotalMultiplicative(call.first, call.second)
        /\ (order # "RevLex" /\ call.first # << >>) => Precedes(<< >>, call.first)
        /\ (order = "RevLex" /\ call.first # << >>) => Precedes(call.first, << >>)

\* the empty monomial compared with a variable under RevLex: it does not
\* precede it
WitnessOrdersAdmissibleButRevLex ==
    /\ call.op = "MonomialOrder"
    /\ order = "RevLex"
    /\ call.first = << >>
    /\ call.second # << >>
    /\ call.ret = FALSE


\* the order of the exponent vectors compared from index 0, an absent
\* exponent counting as 0
ComparedFromIndexZero(a, b) ==
    \E i \in 1..Max2(Len(a), Len(b)) :
        /\ GetDegree(a, i) < GetDegree(b, i)
        /\ \A j \in 1..(i - 1) : GetDegree(a, j) = GetDegree(b, j)

\* a is below b in the order type o: Lex compares from index 0, RevLex is its
\* reverse, the graded orders compare the total degree first
IsBelow(o, a, b) ==
    CASE o = "Lex"          -> ComparedFromIndexZero(a, b)
      [] o = "RevLex"       -> ComparedFromIndexZero(b, a)
      [] o = "GradedLex"    ->
            \/ TotalDegree(a) < TotalDegree(b)
            \/ TotalDegree(a) = TotalDegree(b) /\ ComparedFromIndexZero(a, b)
      [] o = "GradedRevLex" ->
            \/ TotalDegree(a) < TotalDegree(b)
            \/ TotalDegree(a) = TotalDegree(b) /\ ComparedFromIndexZero(b, a)

\* the monomials of p as GetNthTerm(0), GetNthTerm(1), ... returns them
MonomialsByGetNthTerm(o, p) ==
    [i \in 1..GetAmountOfTerms(p) |-> GetNthTerm(o, p, i)[1]]

\* C18: GetNthTerm(0) is the leading term, and GetNthTerm(i) is the term of
\* the polynomial with exactly i terms above it in the order type of the
\* polynomial, so the terms come out in strictly decreasing order; the terms
\* [1,2,3], [1,2,4], [2,2,2], [6] come out as [6], [2,2,2], [1,2,4], [1,2,3]
\* under Lex, as [1,2,4], [6], [2,2,2], [1,2,3] under GradedLex and as
\* [1,2,4], [1,2,3], [2,2,2], [6] under GradedRevLex
GetNthTermDecreasing ==
    /\ call.op = "GetNthTerm" =>
          /\ call.result[1] \in DOMAIN polynomial
          /\ call.result[2] = polynomial[call.result[1]]
          /\ Cardinality({ m \in DOMAIN polynomial :
                             IsBelow(order, call.result[1], m) }) = call.count
          /\ call.count = 0 => call.result = GetLeadingTerm(order, polynomial)
    /\ MonomialsByGetNthTerm("Lex", PolynomialFromList(TestOrderList))
          = << <<6>>, <<2, 2, 2>>, <<1, 2, 4>>, <<1, 2, 3>> >>
    /\ MonomialsByGetNthTerm("GradedLex", PolynomialFromList(TestOrderList))
          = << <<1, 2, 4>>, <<6>>, <<2, 2, 2>>, <<1, 2, 3>> >>
    /\ MonomialsByGetNthTerm("GradedRevLex", PolynomialFromList(TestOrderList))
          = << <<1, 2, 4>>, <<1, 2, 3>>, <<2, 2, 2>>, <<6>> >>

\* GetNthTerm(1) of the polynomial of TestOrder under GradedRevLex is the
\* term of [1,2,3]
WitnessGetNthTermDecreasing ==
    /\ call.op = "GetNthTerm"
    /\ order = "GradedRevLex"
    /\ polynomial = PolynomialFromList(TestOrderList)
    /\ call.count = 1
    /\ call.result[1] = <<1, 2, 3>>

\* C19: the Polynomial object holds no term with a zero coefficient after its
\* constructors and after +=, -=, *= and unary minus, and its keys are
\* pairwise distinct monomials, so it is zero as a polynomial exactly when
\* its mapping is empty; Polynomial({{1,2}, 0}) is the empty polynomial and
\* p - p is empty
PolynomialHasNoZeroTerm ==
    /\ pc = "polynomial" =>
          /\ \A m \in DOMAIN polynomial : polynomial[m].num # 0
          /\ \A a, b \in DOMAIN polynomial :
                a # b => \E i \in 1..Max2(Len(a), Len(b)) :
                            GetDegree(a, i) # GetDegree(b, i)
          /\ IsZero(polynomial)
                <=> \A m \in DOMAIN polynomial : FrEq(polynomial[m], Zero)
          /\ IsZero(PolySub(order, polynomial, polynomial))
    /\ PolynomialOfTerm(Monomial(<<1, 2>>), RationalInt(0)) = EmptyPolynomial
    /\ PolynomialsFromList(<< <<Monomial(<<1, 2>>), RationalInt(0)>> >>)
          = {EmptyPolynomial}
    /\ \A p \in PolynomialOperands : PolySub(order, p, p) = EmptyPolynomial

\* (x0 - 2) * (x0 + 2): the two terms of x0 have cancelled
WitnessPolynomialHasNoZeroTerm ==
    /\ pc = "polynomial"
    /\ call.op = "operator*="
    /\ polynomial = PolynomialOf({ <<(<<2>>), 1>>, <<(<< >>), -4>> })

\* the sum of the coefficients of the entries of the list with the monomial m
RECURSIVE SumOfEntries(_, _)
SumOfEntries(terms, m) ==
    IF terms = << >> THEN [num |-> 0, den |-> 1]
    ELSE IF Head(terms)[1] = m
         THEN FrAdd(Head(terms)[2], SumOfEntries(Tail(terms), m))
         ELSE SumOfEntries(Tail(terms), m)

\* C20: the polynomial constructed from an initializer list has, for each
\* monomial, the sum of the coefficients of all list entries with that
\* monomial, and a monomial whose sum is zero is absent
InitializerListSumsDuplicates ==
    call.op = "Polynomial(terms)" =>
        /\ \A m \in DOMAIN polynomial :
              \E i \in 1..Len(call.first) : call.first[i][1] = m
        /\ \A i \in 1..Len(call.first) :
              \E sum \in {SumOfEntries(call.first, call.first[i][1])} :
                 IF sum.num = 0
                 THEN call.first[i][1] \notin DOMAIN polynomial
                 ELSE /\ call.first[i][1] \in DOMAIN polynomial
                      /\ FrEq(polynomial[call.first[i][1]], sum)


\* the coefficient of the monomial m in p, 0 when m is absent
CoefficientOf(p, m) == IF m \in DOMAIN p THEN p[m] ELSE [num |-> 0, den |-> 1]

\* the sum of p[a] * q[b] over the pairs <<a, b>> of the set
RECURSIVE SumOfProducts(_, _, _)
SumOfProducts(p, q, pairs) ==
    IF pairs = {} THEN [num |-> 0, den |-> 1]
    ELSE LET ab == CHOOSE x \in pairs : TRUE
         IN  FrAdd(FrMul(p[ab[1]], q[ab[2]]),
                   SumOfProducts(p, q, pairs \ {ab}))

\* the pairs of a monomial of p and a monomial of q whose product is m
PairsWithProduct(p, q, m) ==
    { ab \in (DOMAIN p) \X (DOMAIN q) :
        \A i \in 1..Max2(Len(m), Len(ab[1]) + Len(ab[2])) :
            GetDegree(ab[1], i) + GetDegree(ab[2], i) = GetDegree(m, i) }

\* the monomials that are products of a monomial of p and a monomial of q
ProductMonomials(p, q) ==
    { Shrink_([i \in 1..Max2(Len(a), Len(b)) |->
                  GetDegree(a, i) + GetDegree(b, i)]) :
        a \in DOMAIN p, b \in DOMAIN q }

\* C21: for the operands p and q of a binary operator and every monomial m,
\* the coefficient of m in p + q is p[m] + q[m], in p - q is p[m] - q[m], and
\* in p * q is the sum of p[a] * q[b] over all a * b = m, an absent term
\* counting as 0; p - p is zero, p + p = p * 2, and -p differs from p for a
\* nonzero p
PolynomialArithmeticTermwise ==
    /\ call.op = "operator+" =>
          \A m \in DOMAIN polynomial \cup DOMAIN call.second
                      \cup DOMAIN call.result :
              FrEq(CoefficientOf(call.result, m),
                   FrAdd(CoefficientOf(polynomial, m),
                         CoefficientOf(call.second, m)))
    /\ call.op = "operator-" =>
          \A m \in DOMAIN polynomial \cup DOMAIN call.second
                      \cup DOMAIN call.result :
              FrEq(CoefficientOf(call.result, m),
                   FrSub(CoefficientOf(polynomial, m),
                         CoefficientOf(call.second, m)))
    /\ call.op = "operator*" =>
          \A m \in ProductMonomials(polynomial, call.second)
                      \cup DOMAIN call.result :
              FrEq(CoefficientOf(call.result, m),
                   SumOfProducts(polynomial, call.second,
                       PairsWithProduct(polynomial, call.second, m)))
    /\ call.op = "operator-()" =>
          /\ \A m \in DOMAIN polynomial \cup DOMAIN call.result :
                FrEq(CoefficientOf(call.result, m),
                     FrNeg(CoefficientOf(polynomial, m)))
          /\ ~IsZero(polynomial) => call.result # polynomial
    /\ pc = "arithmetic" =>
          /\ IsZero(PolySub(order, polynomial, polynomial))
          /\ PolyAdd(order, polynomial, polynomial)
                = PolyMul(order, polynomial,
                          PolynomialOfCoefficient(RationalInt(2)))
    /\ PolyMul(order, PolynomialFromList(TestPolynomialList),
               PolynomialFromList(TestPolynomialList)) = TestExpectedSquare

\* (x0 - 2) - (-2 * x1): a term of the right operand absent from the left
WitnessPolynomialArithmeticTermwise ==
    /\ call.op = "operator-"
    /\ polynomial = PolynomialOf({ <<(<<1>>), 1>>, <<(<< >>), -2>> })
    /\ call.second = PolynomialOf({ <<(<<0, 1>>), -2>> })
    /\ call.result = PolynomialOf({ <<(<<1>>), 1>>, <<(<< >>), -2>>,
                                    <<(<<0, 1>>), 2>> })


\* the (monomial, coefficient) pairs of a polynomial
TermSet(p) == { <<m, p[m]>> : m \in DOMAIN p }

\* C22: a polynomial converted from its order to any of the four orders has
\* exactly the same (monomial, coefficient) pairs, and converted back to its
\* own order it equals the original
ConversionPreservesTerms ==
    /\ pc \in {"converted", "returned"} =>
          TermSet(call.result) = TermSet(polynomial)
    /\ pc = "returned" /\ call.op = "Polynomial(converted)" =>
          call.second = polynomial

\* the polynomial of TestOrder converted from Lex to GradedRevLex and back
WitnessConversionPreservesTerms ==
    /\ pc = "returned"
    /\ call.op = "Polynomial(converted)"
    /\ order = "Lex"
    /\ call.first = "GradedRevLex"
    /\ polynomial = PolynomialFromList(TestOrderList)
    /\ call.second = polynomial


\* the monomial x_i * x_{(i+1) mod m} * ... * x_{(i+n-1) mod m}
CyclicWindow(i, n, m) ==
    Shrink_([k \in 1..m |-> IF ((k - 1 - i) % m) < n THEN 1 ELSE 0])

\* the n-th cyclic-m generator for n < m: the m windows of n variables, each
\* with the coefficient 1
CyclicGenerator(n, m) ==
    [w \in { CyclicWindow(i, n, m) : i \in 0..(m - 1) } |-> RationalInt(1)]

\* x_0 * x_1 * ... * x_{m-1} - 1
CyclicRelation(m) ==
    [w \in { CyclicWindow(0, m, m), << >> } |->
        IF w = << >> THEN RationalInt(-1) ELSE RationalInt(1)]

\* C23: BuildCycleSet(m), m >= 1, is exactly the set of the cyclic-m
\* generators: for each n in 1..m-1 the polynomial of the m monomials
\* x_i * ... * x_{(i+n-1) mod m} with the coefficient 1, and the polynomial
\* x_0 * ... * x_{m-1} - 1; it has m elements, and the constant term of the
\* last one is -1
BuildCycleSetIsCyclic ==
    /\ call.op = "BuildCycleSet" =>
          /\ set = { CyclicGenerator(n, call.count) : n \in 1..(call.count - 1) }
                      \cup { CyclicRelation(call.count) }
          /\ Cardinality(set) = call.count
          /\ \A p \in set :
                << >> \in DOMAIN p =>
                    /\ p[<< >>] = RationalInt(-1)
                    /\ TotalDegree(MaxKey("GradedLex", DOMAIN p)) = call.count
    /\ call.op = "BuildCyclePolymonial" /\ call.first < call.count =>
          /\ polynomial = CyclicGenerator(call.first, call.count)
          /\ GetAmountOfTerms(polynomial) = call.count
    /\ BuildCycleSet(order, 3) = Cyclic3

\* BuildCycleSet(3): an odd m
WitnessBuildCycleSetIsCyclic ==
    /\ call.op = "BuildCycleSet"
    /\ call.count = 3
    /\ CyclicRelation(3) \in set


\* two monomials are coprime: no variable occurs in both
NoCommonVariable(a, b) ==
    \A i \in 1..Max2(Len(a), Len(b)) : GetDegree(a, i) = 0 \/ GetDegree(b, i) = 0

\* the pair checked by the k-th call of CheckPair has coprime leading monomials
CoprimePair(k) ==
    NoCommonVariable(GetLeadingTerm(order, call.result[k].first)[1],
                     GetLeadingTerm(order, call.result[k].second)[1])

\* the result of ChainOfReductionsOverSet(SPolynomial(f, g), set) for the
\* pair of the k-th call of CheckPair
ReducedSPolynomial(k) ==
    ChainOfReductionsOverSet(order,
        SPolynomial(order, call.result[k].first, call.result[k].second),
        set).reducible

\* C24: FindPairs hands CheckPair no pair (f, f) and no unordered pair of the
\* set twice, and by its return every unordered pair of distinct elements
\* once; a pair with coprime leading monomials is skipped without computing
\* its S-polynomial; the returned set is exactly the set of the nonzero
\* results of ChainOfReductionsOverSet(SPolynomial(f, g), set) over the other
\* pairs (f, g), f the later of the two in the order of the set; the set
\* itself is left unchanged
FindPairsConsidersEachPairOnce ==
    /\ set = input
    /\ \A k \in 1..Len(call.result) :
          /\ call.result[k].first # call.result[k].second
          /\ {call.result[k].first, call.result[k].second} \subseteq set
          /\ Less(call.result[k].second, call.result[k].first)
          /\ CoprimePair(k) <=> ~call.result[k].computed
          /\ \A l \in 1..Len(call.result) :
                k # l => {call.result[k].first, call.result[k].second}
                           # {call.result[l].first, call.result[l].second}
    /\ pc = "returned" =>
          /\ \A f, g \in set :
                f # g => \E k \in 1..Len(call.result) :
                            {call.result[k].first, call.result[k].second} = {f, g}
          /\ polynomialsToAdd =
                { ReducedSPolynomial(k) :
                    k \in { l \in 1..Len(call.result) : ~CoprimePair(l) } }
                  \ {EmptyPolynomial}
          /\ polynomialsToAdd = FindPairs(order, set)

\* FindPairs has returned from the cyclic-3 set: three calls of CheckPair,
\* each computing an S-polynomial, and a nonzero result among them
WitnessFindPairsConsidersEachPairOnce ==
    /\ pc = "returned"
    /\ call.op = "FindPairs"
    /\ set = Cyclic3
    /\ Len(call.result) = 3
    /\ \A k \in 1..Len(call.result) : call.result[k].computed
    /\ polynomialsToAdd # {}


\* a returned reduction has counted the elementary reductions performed, and
\* the count is 0 exactly when the reducible is what it began as
CountsReductions ==
    /\ pc = "reducing" =>
          run = call.count + call.second.pass + call.second.chain
    /\ pc = "returned" => /\ call.count = run
                          /\ call.count = 0 <=> polynomial = call.first

DivisionBySelfLeavesOne ==
    call.op = "operator/=(*this)" =>
        /\ rational = Rational(1, 1)
        /\ rational = RatDiv(call.first, call.first)

====
